---- MODULE Spec2Model ----
(***************************************************************************)
(* Model of the Linux AT-SPI bridge server                                 *)
(* (src/platforms/linux/zylix-test/zylix_test_server.py): the session      *)
(* registry, the element handle table, their counters, the command         *)
(* dispatcher and the launch / attach / close / find handlers, run against *)
(* a small accessibility tree whose nodes may stop answering.              *)
(***************************************************************************)
EXTENDS Integers, Sequences, FiniteSets, TLC

VARIABLES
    sessions,         \* sessions: Dict[str, Session]
    session_counter,  \* session_counter
    elements,         \* elements: Dict[str, Accessible]
    element_counter,  \* element_counter
    desktop,          \* children of Atspi.get_desktop(0), in enumeration order
    raises,           \* nodes on which every platform call raises
    launch,           \* position of handle_launch: [active, pid, polls]
    response,         \* what the last request got back
    last,             \* the last request: [parts, data]
    signals,          \* how many times os.kill was called
    kill,             \* os.kill in the last request: "none", "delivered" or "raised"
    issued,           \* every id returned by store_element, in order
    issuedSessions,   \* every session id returned by launch/attach, in order
    closed,           \* <<session id removed by close, how many ids were issued by then>>
    http,             \* HTTP method of the request being answered
    effects,          \* what the last request did to the platform, in order
    texts,            \* content of the text interface of the nodes that have one
    measured,         \* the last rectangle getBounds returned since the tree changed
    listed,           \* the last list findElements returned since the tree changed
    probe             \* a tree drawn for a search on its own, the query and what it found

vars == <<sessions, session_counter, elements, element_counter, desktop, raises,
          launch, response, last, signals, kill, issued, issuedSessions, closed,
          http, effects, texts, measured, listed, probe>>

-----------------------------------------------------------------------------
(* Bounds of the model *)

MaxSessions == 2      \* launch/attach stop being requested at this counter
MaxElements == 2      \* find stops being requested at this counter
MaxPolls == 50        \* for _ in range(50)
MaxNodes == 4         \* nodes of a drawn tree

-----------------------------------------------------------------------------
(* Python values *)

None == "None"                \* a missing node / dict.get default
Raised == "Raised"            \* a platform call raised
NoneStr == <<"None">>         \* a missing string
RaisedStr == <<"Raised">>     \* a string read that raised
NonePid == -1                 \* pid = None
NullId == "null"              \* JSON null in a response

\* truthiness of an optional string: None and "" are falsy
TruthyStr(s) == s # NoneStr /\ s # <<>>

\* truthiness of an optional int: None and 0 are falsy
TruthyPid(p) == p # NonePid /\ p # 0

\* x or ""
OrEmpty(s) == IF s = NoneStr THEN <<>> ELSE s

UpperCase ==
    << "A", "B", "C", "D", "E", "F", "G", "H", "I", "J", "K", "L", "M", "N",
       "O", "P", "Q", "R", "S", "T", "U", "V", "W", "X", "Y", "Z" >>
LowerCase ==
    << "a", "b", "c", "d", "e", "f", "g", "h", "i", "j", "k", "l", "m", "n",
       "o", "p", "q", "r", "s", "t", "u", "v", "w", "x", "y", "z" >>
UpperToLower ==
    [c \in {UpperCase[i] : i \in 1..Len(UpperCase)} |->
        LowerCase[CHOOSE i \in 1..Len(UpperCase) : UpperCase[i] = c]]

\* str.lower()
Lower(s) == [i \in 1..Len(s) |->
                IF s[i] \in DOMAIN UpperToLower THEN UpperToLower[s[i]] ELSE s[i]]

\* a in b, for strings
IsSubstring(a, b) ==
    \E i \in 1..(Len(b) - Len(a) + 1) : SubSeq(b, i, i + Len(a) - 1) = a

\* needle.lower() in hay.lower()
ContainsCI(needle, hay) == IsSubstring(Lower(needle), Lower(hay))

\* f"session-{session_counter}"
SessionIdOf(n) == "session-" \o ToString(n)

\* f"ax-{element_counter}"
ElementIdOf(n) == "ax-" \o ToString(n)

-----------------------------------------------------------------------------
(* The accessibility tree the server runs against *)

Leaf(role, name, description) ==
    [role |-> role, name |-> name, description |-> description,
     pid |-> NonePid, children |-> <<>>]

Tree ==
    [ app1 |-> [role |-> "APPLICATION", name |-> <<"E", "d">>, description |-> <<>>,
                pid |-> 11, children |-> <<"pan4", "frm5">>],
      app2 |-> [role |-> "APPLICATION", name |-> <<"s", "e", "t">>, description |-> <<>>,
                pid |-> 12, children |-> <<"dlg6">>],
      app3 |-> [role |-> "APPLICATION", name |-> NoneStr, description |-> <<>>,
                pid |-> 13, children |-> <<"frm11">>],
      pan4 |-> Leaf("PANEL", <<"S", "e", "t">>, <<>>),
      frm5 |-> [role |-> "FRAME", name |-> <<"S", "e", "t", "s">>, description |-> <<>>,
                pid |-> NonePid, children |-> <<"pan7", "btn8">>],
      dlg6 |-> [role |-> "DIALOG", name |-> <<"s", "e", "e">>, description |-> <<>>,
                pid |-> NonePid, children |-> <<"ent9">>],
      pan7 |-> [role |-> "PANEL", name |-> <<>>, description |-> <<>>,
                pid |-> NonePid, children |-> <<"btn10">>],
      btn8 |-> Leaf("PUSH_BUTTON", <<"O", "k">>, <<"g", "o">>),
      ent9 |-> Leaf("ENTRY", NoneStr, <<"E", "d">>),
      btn10 |-> Leaf("PUSH_BUTTON", <<"G", "o">>, NoneStr),
      frm11 |-> Leaf("FRAME", <<"N", "e", "w">>, <<>>) ]

Nodes == DOMAIN Tree
Apps == {"app1", "app2", "app3"}
Pids == {Tree[a].pid : a \in Apps}

\* pids of processes that never show up in the accessibility tree
\* (/bin/true, gtk-launch itself)
NoGuiPids == {14}

\* nodes that may stop answering while the server runs
Fragile == {"app1", "dlg6"}

\* applications whose get_process_id() may raise though they answer otherwise
PidUnresolved == {"app2"}

\* Accessible.get_component(): screen position and size of the nodes that
\* implement the component interface (has), None for the others
Rect(x, y, width, height) ==
    [has |-> TRUE, x |-> x, y |-> y, width |-> width, height |-> height]
NoComponent == [has |-> FALSE, x |-> 0, y |-> 0, width |-> 0, height |-> 0]
Component ==
    [n \in Nodes |->
        CASE n = "frm5" -> Rect(0, 0, 200, 100)
          [] n = "dlg6" -> Rect(10, 20, 31, 15)
          [] n = "btn8" -> Rect(50, 50, 100, 20)
          [] n = "ent9" -> Rect(12, 22, 9, 5)
          [] n = "btn10" -> Rect(3, 4, 7, 9)
          [] OTHER -> NoComponent]

\* Accessible.get_action(): the action names of the nodes that implement the
\* action interface, in index order
NoAction == [has |-> FALSE, names |-> <<>>]
Action ==
    [n \in Nodes |->
        CASE n = "btn8" -> [has |-> TRUE, names |-> <<"toggle">>]
          [] n = "btn10" -> [has |-> TRUE, names |-> <<"focus", "press", "click">>]
          [] n = "dlg6" -> [has |-> TRUE, names |-> <<>>]
          [] OTHER -> NoAction]

\* nodes with the editable-text interface, nodes with the text interface
EditableText == {"ent9"}
Text == {"ent9", "btn8"}
InitTexts == [n \in Text |-> IF n = "ent9" THEN <<"h", "i">> ELSE <<>>]

\* Accessible.get_state_set() and get_attributes()
StateSet ==
    [n \in Nodes |->
        CASE n \in {"btn8", "ent9", "dlg6"} -> {"VISIBLE", "ENABLED"}
          [] n = "btn10" -> {"VISIBLE"}
          [] n = "frm5" -> {"VISIBLE", "ENABLED", "FOCUSED"}
          [] OTHER -> {}]
Attributes ==
    [n \in Nodes |-> IF n = "btn8" THEN [name |-> <<"i", "d">>, value |-> <<"o", "k">>]
                     ELSE [name |-> <<>>, value |-> <<>>]]

\* the tree the reads are answered from: the one above or, for a search on
\* its own, the drawn one
Accessible == IF probe.drawn THEN probe.tree ELSE Tree

\* every platform call on a node in raises raises (the node is defunct or hung)
Fails(n) == n \in raises

\* Accessible.get_role(), get_name(), get_description(), get_process_id() and
\* the children read through get_child_count() / get_child_at_index(), on a
\* node that answers
get_role(n) == Accessible[n].role
get_name(n) == Accessible[n].name
get_description(n) == Accessible[n].description
get_process_id(n) == Accessible[n].pid
get_children(n) == Accessible[n].children

-----------------------------------------------------------------------------
(* Application / window discovery *)

RECURSIVE find_app_by_name_from(_, _)
find_app_by_name_from(i, name) ==
    IF i > Len(desktop) THEN None
    ELSE LET app == desktop[i] IN
         IF name = NoneStr \/ Fails(app) THEN Raised   \* None.lower(), get_name()
         ELSE IF ContainsCI(name, OrEmpty(get_name(app))) THEN app
         ELSE find_app_by_name_from(i + 1, name)

find_app_by_name(name) == find_app_by_name_from(1, name)

RECURSIVE find_app_by_pid_from(_, _)
find_app_by_pid_from(i, pid) ==
    IF i > Len(desktop) THEN None
    ELSE LET app == desktop[i] IN
         IF ~Fails(app) /\ get_process_id(app) = pid THEN app
         ELSE find_app_by_pid_from(i + 1, pid)         \* except Exception: pass

\* the first application that answers, whatever its process id
find_app_by_pid_any(pid) ==
    IF \E i \in 1..Len(desktop) : ~Fails(desktop[i])
    THEN desktop[CHOOSE i \in 1..Len(desktop) :
                    ~Fails(desktop[i]) /\ \A j \in 1..(i - 1) : Fails(desktop[j])]
    ELSE None

find_app_by_pid(pid) == find_app_by_pid_from(1, pid)

WindowRoles == {"FRAME", "WINDOW", "DIALOG"}

RECURSIVE find_window_from(_, _, _)
find_window_from(kids, i, name) ==
    IF i > Len(kids) THEN None
    ELSE LET child == kids[i] IN
         IF Fails(child) THEN Raised                   \* child.get_role()
         ELSE IF get_role(child) \in WindowRoles
                 /\ (name = NoneStr \/ ContainsCI(name, OrEmpty(get_name(child))))
              THEN child
         ELSE find_window_from(kids, i + 1, name)

\* the first child that answers, whatever its role
find_window_first_child(app, name) ==
    IF Fails(app) THEN Raised
    ELSE IF get_children(app) = <<>> THEN None
    ELSE IF Fails(get_children(app)[1]) THEN Raised
    ELSE get_children(app)[1]

find_window(app, name) ==
    IF Fails(app) THEN Raised                          \* app.get_child_count()
    ELSE find_window_from(get_children(app), 1, name)

-----------------------------------------------------------------------------
(* Tree search *)

\* role_map of find_element_by_role
role_map ==
    { <<<<"p", "u", "s", "h", " ", "b", "u", "t", "t", "o", "n">>, "PUSH_BUTTON">>,
      <<<<"b", "u", "t", "t", "o", "n">>, "PUSH_BUTTON">>,
      <<<<"t", "e", "x", "t">>, "TEXT">>,
      <<<<"e", "n", "t", "r", "y">>, "ENTRY">>,
      <<<<"l", "a", "b", "e", "l">>, "LABEL">>,
      <<<<"m", "e", "n", "u">>, "MENU">>,
      <<<<"m", "e", "n", "u", " ", "i", "t", "e", "m">>, "MENU_ITEM">>,
      <<<<"m", "e", "n", "u", " ", "b", "a", "r">>, "MENU_BAR">>,
      <<<<"c", "h", "e", "c", "k", " ", "b", "o", "x">>, "CHECK_BOX">>,
      <<<<"r", "a", "d", "i", "o", " ", "b", "u", "t", "t", "o", "n">>, "RADIO_BUTTON">>,
      <<<<"c", "o", "m", "b", "o", " ", "b", "o", "x">>, "COMBO_BOX">>,
      <<<<"l", "i", "s", "t">>, "LIST">>,
      <<<<"l", "i", "s", "t", " ", "i", "t", "e", "m">>, "LIST_ITEM">>,
      <<<<"t", "r", "e", "e">>, "TREE">>,
      <<<<"t", "r", "e", "e", " ", "i", "t", "e", "m">>, "TREE_ITEM">>,
      <<<<"t", "a", "b">>, "PAGE_TAB">>,
      <<<<"t", "a", "b", " ", "l", "i", "s", "t">>, "PAGE_TAB_LIST">>,
      <<<<"s", "c", "r", "o", "l", "l", " ", "b", "a", "r">>, "SCROLL_BAR">>,
      <<<<"s", "l", "i", "d", "e", "r">>, "SLIDER">>,
      <<<<"p", "r", "o", "g", "r", "e", "s", "s", " ", "b", "a", "r">>, "PROGRESS_BAR">>,
      <<<<"f", "r", "a", "m", "e">>, "FRAME">>,
      <<<<"w", "i", "n", "d", "o", "w">>, "WINDOW">>,
      <<<<"d", "i", "a", "l", "o", "g">>, "DIALOG">>,
      <<<<"p", "a", "n", "e", "l">>, "PANEL">>,
      <<<<"t", "o", "o", "l", "b", "a", "r">>, "TOOL_BAR">>,
      <<<<"s", "t", "a", "t", "u", "s", " ", "b", "a", "r">>, "STATUS_BAR">> }

\* role_map of find_elements_by_role
role_map_many ==
    { <<<<"p", "u", "s", "h", " ", "b", "u", "t", "t", "o", "n">>, "PUSH_BUTTON">>,
      <<<<"b", "u", "t", "t", "o", "n">>, "PUSH_BUTTON">>,
      <<<<"t", "e", "x", "t">>, "TEXT">>,
      <<<<"e", "n", "t", "r", "y">>, "ENTRY">>,
      <<<<"l", "a", "b", "e", "l">>, "LABEL">> }

\* role_map.get(role_name.lower())
RoleOf(map, role_name) ==
    IF \E e \in map : e[1] = Lower(role_name)
    THEN (CHOOSE e \in map : e[1] = Lower(role_name))[2]
    ELSE None

\* the three find_element_by_* functions share search(): test the node, then
\* its children left to right; Matches(node) is the test of the node
RoleTest(target) == [n \in DOMAIN Accessible |-> get_role(n) = target]
NameTest(name) == [n \in DOMAIN Accessible |-> ContainsCI(name, OrEmpty(get_name(n)))]
DescriptionTest(desc) ==
    [n \in DOMAIN Accessible |-> ContainsCI(desc, OrEmpty(get_description(n)))]

RECURSIVE search(_, _), search_children(_, _, _)
search(node, test) ==
    IF Fails(node) THEN Raised
    ELSE IF test[node] THEN node
    ELSE search_children(get_children(node), 1, test)

\* the children taken from the right
search_children_from_the_right(kids, i, test) ==
    IF i > Len(kids) THEN None
    ELSE LET result == search(kids[Len(kids) - i + 1], test) IN
         IF result # None THEN result
         ELSE search_children(kids, i + 1, test)

search_children(kids, i, test) ==
    IF i > Len(kids) THEN None
    ELSE LET result == search(kids[i], test) IN
         IF result # None THEN result                  \* a match, or the raise
         ELSE search_children(kids, i + 1, test)

find_element_by_role(root, role_name) ==
    IF role_name = NoneStr THEN Raised                 \* None.lower()
    ELSE IF RoleOf(role_map, role_name) = None THEN None
    ELSE search(root, RoleTest(RoleOf(role_map, role_name)))

find_element_by_name(root, name) ==
    IF name = NoneStr THEN Raised
    ELSE search(root, NameTest(name))

find_element_by_description(root, desc) ==
    IF desc = NoneStr THEN Raised
    ELSE search(root, DescriptionTest(desc))

\* find_elements_by_role: [raised, found], found in the order of the appends
RECURSIVE search_all(_, _), search_all_children(_, _, _)
search_all(node, target) ==
    IF Fails(node) THEN [raised |-> TRUE, found |-> <<>>]
    ELSE LET here == IF get_role(node) = target THEN <<node>> ELSE <<>>
             below == search_all_children(get_children(node), 1, target)
         IN [raised |-> below.raised, found |-> here \o below.found]

search_all_children(kids, i, target) ==
    IF i > Len(kids) THEN [raised |-> FALSE, found |-> <<>>]
    ELSE LET first == search_all(kids[i], target) IN
         IF first.raised THEN first
         ELSE LET rest == search_all_children(kids, i + 1, target) IN
              [raised |-> rest.raised, found |-> first.found \o rest.found]

find_elements_by_role(root, role_name) ==
    IF role_name = NoneStr THEN [raised |-> TRUE, found |-> <<>>]
    ELSE IF RoleOf(role_map_many, role_name) = None
         THEN [raised |-> FALSE, found |-> <<>>]
    ELSE search_all(root, RoleOf(role_map_many, role_name))

-----------------------------------------------------------------------------
(* The two registries *)

EmptyMap == [k \in {} |-> None]

\* del d[key]
Without(d, key) == [k \in DOMAIN d \ {key} |-> d[k]]

\* the table replaced by the one entry
WithOnly(d, key, value) == (key :> value)

\* d[key] = value
With(d, key, value) == (key :> value) @@ d

\* the increment left out
SameElementCounter(n) == n

\* element_counter += 1
NextElementCounter(n) == n + 1

\* store_element on st = [elements, counter, ids]; ids are the ids returned
store_element(st, element) ==
    LET n == NextElementCounter(st.counter)
        element_id == ElementIdOf(n)
    IN [elements |-> With(st.elements, element_id, element),
        counter |-> n,
        ids |-> Append(st.ids, element_id)]

\* [store_element(el) for el in found]
RECURSIVE store_each(_, _, _)
store_each(st, found, i) ==
    IF i > Len(found) THEN st
    ELSE store_each(store_element(st, found[i]), found, i + 1)

\* elements.get(element_id)
get_element(element_id) ==
    IF element_id \in DOMAIN elements THEN elements[element_id] ELSE None

\* the id taken from the size of the table: len(sessions) + 1
SessionCountPlusOne(n) == Cardinality(DOMAIN sessions) + 1

\* session_counter += 1, in handle_launch and in handle_attach
NextSessionCounter(n) == n + 1

Session(id, app, pid, window) == [id |-> id, app |-> app, pid |-> pid, window |-> window]

-----------------------------------------------------------------------------
(* Requests and responses *)

\* a request body: the keys the handlers read; NoneStr / NonePid is a missing key
NoData ==
    [desktopFile |-> NoneStr, executable |-> NoneStr,
     pid |-> NonePid, appName |-> NoneStr, windowName |-> NoneStr,
     strategy |-> None, value |-> NoneStr, parentId |-> None,
     elementId |-> None, text |-> NoneStr, name |-> NoneStr, keys |-> NoneStr]

\* responses: a JSON object, or the exception that left handle_command
Error(msg) == [error |-> msg]
SuccessWithError == [success |-> TRUE, error |-> ""]
Success == [success |-> TRUE]
Escaped == [exception |-> "raised"]
Pending == [pending |-> TRUE]
IsError(r) == "error" \in DOMAIN r

\* [p for p in path.split('/') if p], path given as its segments
Parts(path) == SelectSeq(path, LAMBDA seg : seg # "")

registries == <<sessions, session_counter, elements, element_counter>>
tree == <<desktop, raises>>
handleLog == <<issued>>
sessionLog == <<issuedSessions, closed, signals, kill>>
platform == <<effects, texts>>
observed == <<measured, listed, probe>>

-----------------------------------------------------------------------------
(* Session lifecycle *)

\* the del indented under "if session.pid:"
sessions_after_close_if_pid(session) ==
    IF TruthyPid(session.pid) THEN Without(sessions, session.id) ELSE sessions

\* the del left out
sessions_after_close_kept(session) == sessions

\* the session table after handle_close's del sessions[session.id]
sessions_after_close(session) == Without(sessions, session.id)

\* handle_close: os.kill is delivered or raises, as the environment decides
handle_close(session) ==
    /\ IF TruthyPid(session.pid)
       THEN /\ signals' = signals + 1
            /\ kill' \in {"delivered", "raised"}          \* except Exception: pass
       ELSE UNCHANGED <<signals, kill>>
    /\ sessions' = sessions_after_close(session)
    /\ closed' = closed \cup {<<session.id, Len(issuedSessions)>>}
    /\ response' = Success
    /\ UNCHANGED <<session_counter, elements, element_counter, launch,
                   issued, issuedSessions>>

\* the application handle_attach settles on: pid, else appName, else windowName
RECURSIVE attach_scan_windows(_, _)
attach_scan_windows(i, window_name) ==
    IF i > Len(desktop) THEN None
    ELSE LET window == find_window(desktop[i], window_name) IN
         IF window = Raised THEN Raised
         ELSE IF window # None THEN desktop[i]
         ELSE attach_scan_windows(i + 1, window_name)

\* a lookup that finds nothing falls through to the next criterion
attach_app_falling_through(data) ==
    LET by_pid == IF TruthyPid(data.pid) THEN find_app_by_pid(data.pid) ELSE None
        by_name == IF TruthyStr(data.appName) THEN find_app_by_name(data.appName) ELSE None
    IN IF by_pid # None THEN by_pid
       ELSE IF by_name # None THEN by_name
       ELSE IF TruthyStr(data.windowName) THEN attach_scan_windows(1, data.windowName)
       ELSE None

attach_app(data) ==
    IF TruthyPid(data.pid) THEN find_app_by_pid(data.pid)
    ELSE IF TruthyStr(data.appName) THEN find_app_by_name(data.appName)
    ELSE IF TruthyStr(data.windowName) THEN attach_scan_windows(1, data.windowName)
    ELSE None

\* every registered id bound to the new record
register_rebinding(session) ==
    /\ sessions' = [id \in DOMAIN sessions \cup {session.id} |-> session]
    /\ issuedSessions' = Append(issuedSessions, session.id)
    /\ response' = [sessionId |-> session.id, pid |-> session.pid, success |-> TRUE]

\* registering the session: shared tail of handle_launch and handle_attach
register(session) ==
    /\ sessions' = With(sessions, session.id, session)
    /\ issuedSessions' = Append(issuedSessions, session.id)
    /\ response' = [sessionId |-> session.id, pid |-> session.pid, success |-> TRUE]

\* app.get_process_id() in handle_attach: the pid, or None when the call
\* raises (the application may stop answering between two calls)
PidReads(app) ==
    IF Fails(app) THEN {NonePid}
    ELSE {get_process_id(app)} \cup (IF app \in PidUnresolved THEN {NonePid} ELSE {})

handle_attach(data) ==
    LET app == attach_app(data) IN
    /\ UNCHANGED <<elements, element_counter, launch, issued, closed, signals, kill>>
    /\ IF app = Raised
       THEN /\ response' = Escaped
            /\ UNCHANGED <<sessions, session_counter, issuedSessions>>
       ELSE IF app = None
       THEN /\ response' = Error("App not found")
            /\ UNCHANGED <<sessions, session_counter, issuedSessions>>
       ELSE LET n == NextSessionCounter(session_counter)
                window == find_window(app, data.windowName)
            IN /\ session_counter' = n
               /\ IF window = Raised
                  THEN /\ response' = Escaped
                       /\ UNCHANGED <<sessions, issuedSessions>>
                  ELSE \E app_pid \in PidReads(app) :
                         register(Session(SessionIdOf(n), app, app_pid, window))

\* pids subprocess.Popen may return: no running application has them
SpawnPids == (Pids \ {Tree[desktop[i]].pid : i \in 1..Len(desktop)}) \cup NoGuiPids

Idle == [active |-> FALSE, pid |-> NonePid, polls |-> 0]

\* handle_launch up to the polling loop
handle_launch(data) ==
    /\ UNCHANGED <<registries, issued, sessionLog>>
    /\ IF TruthyStr(data.desktopFile) \/ TruthyStr(data.executable)
       THEN \/ /\ response' = Error("SpawnError")           \* Popen raised
               /\ UNCHANGED launch
            \/ \E pid \in SpawnPids :
               /\ launch' = [active |-> TRUE, pid |-> pid, polls |-> 0]
               /\ response' = Pending
       ELSE /\ response' = Error("Missing desktopFile or executable")
            /\ UNCHANGED launch

\* one iteration too many
MorePollsOffByOne(polls) == polls <= MaxPolls

\* for _ in range(50): is there another iteration after polls of them
MorePolls(polls) == polls < MaxPolls

\* "session_counter += 1" ahead of "if not app: return"
counter_before_check(found, n) == NextSessionCounter(n)

\* session_counter when the polling loop is over: "if not app: return" comes
\* before "session_counter += 1"
counter_after_polling(found, n) == IF found THEN NextSessionCounter(n) ELSE n

\* one iteration of the polling loop, and the rest of handle_launch when the
\* loop ends with it
LaunchPoll ==
    /\ launch.active
    /\ MorePolls(launch.polls)
    /\ UNCHANGED <<elements, element_counter, tree, last, issued, closed, signals, kill,
                   http, platform, observed>>
    /\ LET app == find_app_by_pid(launch.pid)
           polls == launch.polls + 1
       IN IF app = None /\ MorePolls(polls)
          THEN /\ launch' = [launch EXCEPT !.polls = polls]
               /\ UNCHANGED <<sessions, session_counter, response, issuedSessions>>
          ELSE LET n == counter_after_polling(app # None, session_counter) IN
               /\ launch' = Idle
               /\ session_counter' = n
               /\ IF app = None
                  THEN /\ response' = Error("App not found in AT-SPI tree")
                       /\ UNCHANGED <<sessions, issuedSessions>>
                  ELSE LET window == find_window(app, NoneStr) IN
                       IF window = Raised
                       THEN /\ response' = Error("PlatformError")   \* except Exception as e
                            /\ UNCHANGED <<sessions, issuedSessions>>
                       ELSE register(Session(SessionIdOf(n), app, launch.pid, window))

-----------------------------------------------------------------------------
(* Finding elements *)

\* session.window or session.app
SessionRoot(session) == IF session.window # None THEN session.window ELSE session.app

\* the root handle_find_element searches from
FindRoot(session, parent_id) ==
    IF parent_id # None /\ parent_id # "" /\ get_element(parent_id) # None
    THEN get_element(parent_id)
    ELSE SessionRoot(session)

\* the node handle_find_element's strategy yields: a node, None or Raised
find_element(root, strategy, value) ==
    IF strategy = "role" THEN find_element_by_role(root, value)
    ELSE IF strategy = "name" THEN find_element_by_name(root, value)
    ELSE IF strategy = "description" THEN find_element_by_description(root, value)
    ELSE IF strategy = "application" THEN find_app_by_name(value)
    ELSE None

TableNow == [elements |-> elements, counter |-> element_counter, ids |-> <<>>]

\* the handle table, its counter and the log of returned ids after the stores
stored(st) ==
    /\ elements' = st.elements
    /\ element_counter' = st.counter
    /\ issued' = issued \o st.ids

handle_find_element(session, data) ==
    LET root == FindRoot(session, data.parentId) IN
    /\ UNCHANGED <<sessions, session_counter, launch, sessionLog>>
    /\ IF root = None
       THEN /\ response' = Error("No root element")
            /\ UNCHANGED <<elements, element_counter, issued>>
       ELSE LET element == find_element(root, data.strategy, data.value) IN
            IF element = Raised
            THEN /\ response' = Escaped
                 /\ UNCHANGED <<elements, element_counter, issued>>
            ELSE IF element # None
            THEN LET st == store_element(TableNow, element) IN
                 /\ stored(st)
                 /\ response' = [elementId |-> st.ids[1]]
            ELSE /\ response' = [elementId |-> NullId]
                 /\ UNCHANGED <<elements, element_counter, issued>>

\* the nodes that have a handle already left out of the list
handle_find_elements_new_only(session, data) ==
    LET root == SessionRoot(session)
        all == IF data.strategy = "role"
               THEN find_elements_by_role(root, data.value)
               ELSE [raised |-> FALSE, found |-> <<>>]
        found == [raised |-> all.raised,
                  found |-> SelectSeq(all.found,
                                      LAMBDA n : \A id \in DOMAIN elements : elements[id] # n)]
    IN
    /\ UNCHANGED <<sessions, session_counter, launch, sessionLog>>
    /\ IF root = None
       THEN /\ response' = [elements |-> <<>>]
            /\ UNCHANGED <<elements, element_counter, issued>>
       ELSE IF found.raised
       THEN /\ response' = Escaped
            /\ UNCHANGED <<elements, element_counter, issued>>
       ELSE LET st == store_each(TableNow, found.found, 1) IN
            /\ stored(st)
            /\ response' = [elements |-> st.ids]

handle_find_elements(session, data) ==
    LET root == SessionRoot(session)
        found == IF data.strategy = "role"
                 THEN find_elements_by_role(root, data.value)
                 ELSE [raised |-> FALSE, found |-> <<>>]
    IN
    /\ UNCHANGED <<sessions, session_counter, launch, sessionLog>>
    /\ IF root = None
       THEN /\ response' = [elements |-> <<>>]
            /\ UNCHANGED <<elements, element_counter, issued>>
       ELSE IF found.raised
       THEN /\ response' = Escaped
            /\ UNCHANGED <<elements, element_counter, issued>>
       ELSE LET st == store_each(TableNow, found.found, 1) IN
            /\ stored(st)
            /\ response' = [elements |-> st.ids]

-----------------------------------------------------------------------------
(* Element commands *)

\* what a handler did to the platform: a semantic action, a synthesized event,
\* a text edit, a capture utility run, a temporary file made or removed
Effect(kind, node, x, y, width, height, text) ==
    [kind |-> kind, node |-> node, x |-> x, y |-> y,
     width |-> width, height |-> height, text |-> text]

\* action.do_action(i), and the boolean it returned
DoAction(node, i, done) ==
    Effect("do_action", node, i, 0, 0, 0, <<IF done THEN "True" ELSE "False">>)
\* Atspi.generate_mouse_event(x, y, code)
MouseEvent(x, y, code) == Effect(code, None, x, y, 0, 0, <<>>)
\* Atspi.generate_keyboard_event(0, char, Atspi.KeySynthType.STRING)
KeyboardEvent(char) == Effect("key", None, 0, 0, 0, 0, <<char>>)
\* component.grab_focus()
GrabFocus(node) == Effect("grab_focus", node, 0, 0, 0, 0, <<>>)
\* component.grab_focus() raising
GrabFocusRaised(node) == Effect("grab_focus_raised", node, 0, 0, 0, 0, <<>>)
\* editable.delete_text(0, length)
DeleteText(node, length) == Effect("delete_text", node, 0, length, 0, 0, <<>>)
\* editable.insert_text(0, text, len(text))
InsertText(node, text) == Effect("insert_text", node, 0, Len(text), 0, 0, text)
\* tempfile.NamedTemporaryFile(suffix=".png", delete=False) / os.unlink(filename)
TempFile == Effect("tempfile", None, 0, 0, 0, 0, <<>>)
Unlink == Effect("unlink", None, 0, 0, 0, 0, <<>>)
\* subprocess.run([utility, ... the rectangle ..., filename], check=True), and
\* whether it returned (True) or raised (False)
Capture(utility, c, done) ==
    Effect(utility, None, c.x, c.y, c.width, c.height,
           <<IF done THEN "True" ELSE "False">>)

KeyboardEvents(text) == [i \in 1..Len(text) |-> KeyboardEvent(text[i])]

\* the response of an element command, its effects and the texts after it
element_reply(r, fx, tx) ==
    /\ response' = r
    /\ effects' = fx
    /\ texts' = tx
    /\ UNCHANGED <<registries, launch, handleLog, sessionLog>>

\* get_element(data.get("elementId", ""))
ElementArg(data) == get_element(IF data.elementId = None THEN "" ELSE data.elementId)

\* the half of the width rounded up
CenterX_rounded_up(c) == c.x + ((c.width + 1) \div 2)

\* pos.x + size.x // 2, pos.y + size.y // 2
CenterX(c) == c.x + (c.width \div 2)
CenterY(c) == c.y + (c.height \div 2)

Outcome(result, fx, tx) == [result |-> result, fx |-> fx, texts |-> tx]

\* index (from 1) of the first action named click, activate or press; 0 if none
ClickNames == {"click", "activate", "press"}
FirstClickAction(names) ==
    IF \E i \in 1..Len(names) : names[i] \in ClickNames
    THEN CHOOSE i \in 1..Len(names) :
            names[i] \in ClickNames /\ \A j \in 1..(i - 1) : names[j] \notin ClickNames
    ELSE 0

\* the click that moves on to the pointer when the action returns False
click_element_falling_back(element) ==
    IF Fails(element) THEN {Outcome(FALSE, <<>>, texts)}
    ELSE LET action == Action[element]
             i == FirstClickAction(action.names)
             component == Component[element]
             pointer == <<MouseEvent(CenterX(component), CenterY(component), "b1c")>>
         IN IF action.has /\ i # 0
            THEN {Outcome(TRUE, <<DoAction(element, i - 1, TRUE)>>, texts)}
                 \cup {Outcome(component.has,
                                <<DoAction(element, i - 1, FALSE)>>
                                \o (IF component.has THEN pointer ELSE <<>>), texts)}
            ELSE IF component.has
            THEN {Outcome(TRUE, pointer, texts), Outcome(FALSE, <<>>, texts)}
            ELSE {Outcome(FALSE, <<>>, texts)}

\* click_element: what it may return and do, as the platform decides
click_element(element) ==
    IF Fails(element) THEN {Outcome(FALSE, <<>>, texts)}        \* get_action() raises
    ELSE LET action == Action[element]
             i == FirstClickAction(action.names)
             component == Component[element]
         IN IF action.has /\ i # 0
            THEN {Outcome(done, <<DoAction(element, i - 1, done)>>, texts) :
                     done \in BOOLEAN}
            ELSE IF component.has
            THEN {Outcome(TRUE, <<MouseEvent(CenterX(component), CenterY(component),
                                             "b1c")>>, texts),
                  Outcome(FALSE, <<>>, texts)}        \* generate_mouse_event raises
            ELSE {Outcome(FALSE, <<>>, texts)}

\* the click attempted without the check of the handle
handle_click_unchecked(session, data) ==
    LET element == ElementArg(data) IN
    IF element = None
    THEN element_reply(Error("Click failed"), <<MouseEvent(0, 0, "b1c")>>, texts)
    ELSE \E o \in click_element(element) :
           element_reply(IF o.result THEN Success ELSE Error("Click failed"),
                         o.fx, o.texts)

handle_click(session, data) ==
    LET element == ElementArg(data) IN
    IF element = None THEN element_reply(Error("Element not found"), <<>>, texts)
    ELSE \E o \in click_element(element) :
           element_reply(IF o.result THEN Success ELSE Error("Click failed"),
                         o.fx, o.texts)

\* the pointer command that invokes the node's click action when it has one
pointer_click_action_first(data, code, failed) ==
    LET element == ElementArg(data) IN
    IF element = None THEN element_reply(Error("Element not found"), <<>>, texts)
    ELSE IF Fails(element) THEN element_reply(Error("PlatformError"), <<>>, texts)
    ELSE LET component == Component[element]
             i == FirstClickAction(Action[element].names)
         IN
         IF Action[element].has /\ i # 0
         THEN element_reply(Success, <<DoAction(element, i - 1, TRUE)>>, texts)
         ELSE IF component.has
         THEN \/ element_reply(Success,
                               <<MouseEvent(CenterX(component), CenterY(component),
                                            code)>>, texts)
              \/ element_reply(Error("PlatformError"), <<>>, texts)
         ELSE element_reply(Error(failed), <<>>, texts)

\* the body shared by handle_double_click and handle_right_click
pointer_click(data, code, failed) ==
    LET element == ElementArg(data) IN
    IF element = None THEN element_reply(Error("Element not found"), <<>>, texts)
    ELSE IF Fails(element) THEN element_reply(Error("PlatformError"), <<>>, texts)
    ELSE LET component == Component[element] IN
         IF component.has
         THEN \/ element_reply(Success,
                               <<MouseEvent(CenterX(component), CenterY(component),
                                            code)>>, texts)
              \/ element_reply(Error("PlatformError"), <<>>, texts)
         ELSE element_reply(Error(failed), <<>>, texts)

handle_double_click(session, data) == pointer_click(data, "b1d", "Double click failed")
handle_right_click(session, data) == pointer_click(data, "b3c", "Right click failed")

\* the text of node n replaced, where the node has a text interface
SetText(tx, n, t) == IF n \in DOMAIN tx THEN [tx EXCEPT ![n] = t] ELSE tx

\* text_iface.get_character_count(), 0 standing for "no text interface"
CharacterCount(n) == IF n \in Text THEN Len(texts[n]) ELSE 0

\* EditableText.delete_text(start_pos, end_pos) and
\* EditableText.insert_text(position, text, length) on the content t
delete_text(t, start_pos, end_pos) ==
    SubSeq(t, 1, start_pos) \o SubSeq(t, end_pos + 1, Len(t))
insert_text(t, position, text, length) ==
    SubSeq(t, 1, position) \o SubSeq(text, 1, length) \o SubSeq(t, position + 1, Len(t))

\* the content of node n, empty for a node without a text interface
ContentOf(n) == IF n \in Text THEN texts[n] ELSE <<>>

\* the typing that inserts without deleting what is there
type_text_without_delete(element, text) ==
    IF Fails(element) THEN {Outcome(FALSE, <<>>, texts)}
    ELSE LET focus == IF Component[element].has THEN <<GrabFocus(element)>> ELSE <<>>
             edited == focus \o <<InsertText(element, text)>>
         IN IF element \in EditableText
            THEN {Outcome(TRUE, edited,
                          SetText(texts, element,
                                  insert_text(ContentOf(element), 0, text, Len(text))))}
            ELSE {Outcome(TRUE, focus \o KeyboardEvents(text), texts)}

\* type_text: what it may return and do, as the platform decides
type_text(element, text) ==
    IF Fails(element) THEN {Outcome(FALSE, <<>>, texts)}     \* get_component() raises
    ELSE LET focus == IF Component[element].has THEN <<GrabFocus(element)>> ELSE <<>>
             length == CharacterCount(element)
             delete == IF length > 0 THEN <<DeleteText(element, length)>> ELSE <<>>
             edited == focus \o delete \o <<InsertText(element, text)>>
             cleared == IF length > 0 THEN delete_text(ContentOf(element), 0, length)
                        ELSE ContentOf(element)
         IN (IF Component[element].has
             THEN {Outcome(FALSE, <<GrabFocusRaised(element)>>, texts)}
             ELSE {})
            \cup
            (IF element \in EditableText
             THEN {Outcome(TRUE, edited,
                           SetText(texts, element,
                                   insert_text(cleared, 0, text, Len(text)))),
                   \* insert_text returns False: the old content is gone already
                   Outcome(FALSE, edited, SetText(texts, element, cleared))}
             ELSE {Outcome(sent = Len(text),
                           focus \o SubSeq(KeyboardEvents(text), 1, sent), texts) :
                      sent \in 0..Len(text)})     \* an event may raise part-way

handle_type(session, data) ==
    LET element == ElementArg(data)
        text == OrEmpty(data.text)
    IN IF element = None THEN element_reply(Error("Element not found"), <<>>, texts)
       ELSE \E o \in type_text(element, text) :
              element_reply(IF o.result THEN Success ELSE Error("Type failed"),
                            o.fx, o.texts)

\* the clear that refuses a node without the editable-text interface
handle_clear_editable_only(session, data) ==
    LET element == ElementArg(data) IN
    IF element = None THEN element_reply(Error("Element not found"), <<>>, texts)
    ELSE IF Fails(element) THEN element_reply(Error("PlatformError"), <<>>, texts)
    ELSE IF element \notin EditableText
    THEN element_reply(Error("Clear failed"), <<>>, texts)
    ELSE IF CharacterCount(element) > 0
    THEN element_reply(Success, <<DeleteText(element, CharacterCount(element))>>,
                       SetText(texts, element,
                               delete_text(ContentOf(element), 0,
                                           CharacterCount(element))))
    ELSE element_reply(Success, <<>>, texts)

handle_clear(session, data) ==
    LET element == ElementArg(data) IN
    IF element = None THEN element_reply(Error("Element not found"), <<>>, texts)
    ELSE IF Fails(element) THEN element_reply(Error("PlatformError"), <<>>, texts)
    ELSE IF element \in EditableText /\ CharacterCount(element) > 0
    THEN element_reply(Success, <<DeleteText(element, CharacterCount(element))>>,
                       SetText(texts, element,
                               delete_text(ContentOf(element), 0,
                                           CharacterCount(element))))
    ELSE element_reply(Success, <<>>, texts)

\* get_element_text: the text interface's content, else the name; the name is
\* read outside the try
get_element_text(element) ==
    IF Fails(element) THEN RaisedStr
    ELSE IF element \in Text THEN texts[element]
    ELSE OrEmpty(get_name(element))

\* a response carrying a value read from the node, or the exception of the read
value_reply(v) ==
    IF v = RaisedStr THEN element_reply(Escaped, <<>>, texts)
    ELSE element_reply([value |-> v], <<>>, texts)

handle_get_text(session, data) ==
    LET element == ElementArg(data) IN
    IF element = None THEN element_reply(Error("Element not found"), <<>>, texts)
    ELSE value_reply(get_element_text(element))

\* the name read only for a node of the application of the session in the path
handle_get_name_in_session(session, data) ==
    LET element == ElementArg(data) IN
    IF element = None \/ session.window = None
       \/ (\A k \in 1..Len(Tree[session.window].children) :
               Tree[session.window].children[k] # element)
    THEN element_reply(Error("Element not found"), <<>>, texts)
    ELSE value_reply(IF Fails(element) THEN RaisedStr ELSE OrEmpty(get_name(element)))

handle_get_name(session, data) ==
    LET element == ElementArg(data) IN
    IF element = None THEN element_reply(Error("Element not found"), <<>>, texts)
    ELSE value_reply(IF Fails(element) THEN RaisedStr ELSE OrEmpty(get_name(element)))

\* role.value_nick
value_nick ==
    [r \in {Tree[n].role : n \in Nodes} |->
        CASE r = "APPLICATION" -> <<"a", "p", "p", "l", "i", "c", "a", "t", "i", "o", "n">>
          [] r = "PANEL" -> <<"p", "a", "n", "e", "l">>
          [] r = "FRAME" -> <<"f", "r", "a", "m", "e">>
          [] r = "DIALOG" -> <<"d", "i", "a", "l", "o", "g">>
          [] r = "PUSH_BUTTON" -> <<"p", "u", "s", "h", "-", "b", "u", "t", "t", "o", "n">>
          [] r = "ENTRY" -> <<"e", "n", "t", "r", "y">>]

handle_get_role(session, data) ==
    LET element == ElementArg(data) IN
    IF element = None THEN element_reply(Error("Element not found"), <<>>, texts)
    ELSE value_reply(IF Fails(element) THEN RaisedStr ELSE value_nick[get_role(element)])

handle_get_description(session, data) ==
    LET element == ElementArg(data) IN
    IF element = None THEN element_reply(Error("Element not found"), <<>>, texts)
    ELSE value_reply(IF Fails(element) THEN RaisedStr
                     ELSE OrEmpty(get_description(element)))

\* the body shared by handle_is_visible, handle_is_enabled and handle_is_focused
state_reply(data, state) ==
    LET element == ElementArg(data) IN
    IF element = None \/ Fails(element) THEN element_reply([value |-> FALSE], <<>>, texts)
    ELSE element_reply([value |-> state \in StateSet[element]], <<>>, texts)

handle_is_visible(session, data) == state_reply(data, "VISIBLE")
handle_is_enabled(session, data) == state_reply(data, "ENABLED")
handle_is_focused(session, data) == state_reply(data, "FOCUSED")

handle_focus(session, data) ==
    LET element == ElementArg(data) IN
    IF element = None THEN element_reply(Error("Element not found"), <<>>, texts)
    ELSE IF Fails(element) THEN element_reply(Error("PlatformError"), <<>>, texts)
    ELSE IF Component[element].has
    THEN \/ element_reply(Success, <<GrabFocus(element)>>, texts)
         \/ element_reply(Error("PlatformError"), <<>>, texts)   \* grab_focus() raises
    ELSE element_reply(Error("Focus failed"), <<>>, texts)

\* the fall-through of handle_get_bounds reports a failure
BoundsFailed == Error("Get bounds failed")

\* the fall-through of handle_get_bounds: the node has no component interface
ZeroBounds == [x |-> 0, y |-> 0, width |-> 0, height |-> 0]

\* pos.x, pos.y, size.x, size.y
BoundsOf(component) ==
    [x |-> component.x, y |-> component.y,
     width |-> component.width, height |-> component.height]

\* the rectangle taken relative to the session's window
handle_get_bounds_in_window(session, data) ==
    LET element == ElementArg(data)
        window == Component[SessionRoot(session)]
    IN
    IF element = None THEN element_reply(Error("Element not found"), <<>>, texts)
    ELSE IF Fails(element) THEN element_reply(Error("PlatformError"), <<>>, texts)
    ELSE IF Component[element].has
    THEN element_reply([x |-> Component[element].x - window.x,
                        y |-> Component[element].y - window.y,
                        width |-> Component[element].width,
                        height |-> Component[element].height], <<>>, texts)
    ELSE element_reply(ZeroBounds, <<>>, texts)

handle_get_bounds(session, data) ==
    LET element == ElementArg(data) IN
    IF element = None THEN element_reply(Error("Element not found"), <<>>, texts)
    ELSE IF Fails(element) THEN element_reply(Error("PlatformError"), <<>>, texts)
    ELSE IF Component[element].has
    THEN element_reply(BoundsOf(Component[element]), <<>>, texts)
    ELSE element_reply(ZeroBounds, <<>>, texts)

\* attrs.get(name, "")
AttributeOf(element, name) ==
    IF Attributes[element].name = name THEN Attributes[element].value ELSE <<>>

handle_get_attribute(session, data) ==
    LET element == ElementArg(data)
        name == OrEmpty(data.name)
    IN IF element = None THEN element_reply(Error("Element not found"), <<>>, texts)
       ELSE IF Fails(element) THEN element_reply([value |-> <<>>], <<>>, texts)
       ELSE element_reply([value |-> AttributeOf(element, name)], <<>>, texts)

\* base64.b64encode(data).decode(), data a sequence of bytes
Base64Alphabet ==
    << "A", "B", "C", "D", "E", "F", "G", "H", "I", "J", "K", "L", "M", "N", "O", "P",
       "Q", "R", "S", "T", "U", "V", "W", "X", "Y", "Z", "a", "b", "c", "d", "e", "f",
       "g", "h", "i", "j", "k", "l", "m", "n", "o", "p", "q", "r", "s", "t", "u", "v",
       "w", "x", "y", "z", "0", "1", "2", "3", "4", "5", "6", "7", "8", "9", "+", "/" >>
Sextet(n) == Base64Alphabet[n + 1]
RECURSIVE b64encode(_)
b64encode(bytes) ==
    IF Len(bytes) = 0 THEN <<>>
    ELSE IF Len(bytes) = 1
    THEN <<Sextet(bytes[1] \div 4), Sextet((bytes[1] % 4) * 16), "=", "=">>
    ELSE IF Len(bytes) = 2
    THEN <<Sextet(bytes[1] \div 4),
           Sextet((bytes[1] % 4) * 16 + bytes[2] \div 16),
           Sextet((bytes[2] % 16) * 4), "=">>
    ELSE <<Sextet(bytes[1] \div 4),
           Sextet((bytes[1] % 4) * 16 + bytes[2] \div 16),
           Sextet((bytes[2] % 16) * 4 + bytes[3] \div 64),
           Sextet(bytes[3] % 64)>> \o b64encode(SubSeq(bytes, 4, Len(bytes)))

\* what a capture utility that succeeds leaves in the file
Captures == {<<137, 80, 78, 71>>, <<66, 77>>}

Shot(data, fx) == [data |-> data, fx |-> fx]

\* the capture that runs scrot after gnome-screenshot whatever the first did
take_screenshot_running_both(window) ==
    IF Fails(window) \/ ~Component[window].has THEN {Shot(NoneStr, <<>>)}
    ELSE LET c == Component[window] IN
         {Shot(b64encode(bytes),
               <<TempFile, Capture("gnome-screenshot", c, first),
                 Capture("scrot", c, TRUE), Unlink>>) :
             bytes \in Captures, first \in BOOLEAN}
         \cup {Shot(NoneStr, <<TempFile, Capture("gnome-screenshot", c, FALSE),
                               Capture("scrot", c, FALSE)>>)}

\* take_screenshot: the base64 text or None, and what was run, as the
\* utilities decide
take_screenshot(window) ==
    IF Fails(window) \/ ~Component[window].has THEN {Shot(NoneStr, <<>>)}
    ELSE LET c == Component[window]
             primary(done) == Capture("gnome-screenshot", c, done)
             secondary(done) == Capture("scrot", c, done)
         IN {Shot(NoneStr, <<>>)}                       \* NamedTemporaryFile raises
            \cup {Shot(b64encode(bytes), <<TempFile, primary(TRUE), Unlink>>) :
                     bytes \in Captures}
            \cup {Shot(b64encode(bytes),
                       <<TempFile, primary(FALSE), secondary(TRUE), Unlink>>) :
                     bytes \in Captures}
            \* both utilities fail: the exception of the second skips the unlink
            \cup {Shot(NoneStr, <<TempFile, primary(FALSE), secondary(FALSE)>>)}

shot_reply(shot) ==
    IF TruthyStr(shot.data) THEN element_reply([data |-> shot.data], shot.fx, texts)
    ELSE element_reply(Error("Screenshot failed"), shot.fx, texts)

handle_screenshot(session) ==
    LET window == SessionRoot(session) IN
    IF window = None THEN element_reply(Error("No window"), <<>>, texts)
    ELSE \E shot \in take_screenshot(window) : shot_reply(shot)

handle_element_screenshot(session, data) ==
    LET element == ElementArg(data) IN
    IF element = None THEN element_reply(Error("Element not found"), <<>>, texts)
    ELSE \E shot \in take_screenshot(element) : shot_reply(shot)

\* handle_window_info: the title is read outside the try
handle_window_info(session) ==
    LET window == SessionRoot(session) IN
    IF window = None THEN element_reply(Error("No window"), <<>>, texts)
    ELSE IF Fails(window) THEN element_reply(Escaped, <<>>, texts)
    ELSE IF Component[window].has
    THEN element_reply([title |-> OrEmpty(get_name(window))] @@ BoundsOf(Component[window]),
                       <<>>, texts)
    ELSE element_reply([title |-> OrEmpty(get_name(window))], <<>>, texts)

handle_keys(session, data) ==
    LET keys == OrEmpty(data.keys) IN
    \E sent \in 0..Len(keys) :
        element_reply(IF sent = Len(keys) THEN Success ELSE Error("PlatformError"),
                      SubSeq(KeyboardEvents(keys), 1, sent), texts)

-----------------------------------------------------------------------------
(* The dispatcher *)

\* the keys of handlers in handle_command
CommandNames ==
    {"close", "findElement", "findElements", "click", "doubleClick", "rightClick",
     "type", "clear", "getText", "getName", "getRole", "getDescription",
     "isVisible", "isEnabled", "isFocused", "focus", "getBounds", "getAttribute",
     "screenshot", "elementScreenshot", "window", "keys"}

\* a response that changes nothing
reply(r) ==
    /\ response' = r
    /\ UNCHANGED <<registries, launch, handleLog, sessionLog, platform>>

\* sessions.get(session_id) finds a session
Registered(session_id) == session_id \in DOMAIN sessions

\* every path under /session/new but attach launches
route_new_launches(parts) ==
    IF Len(parts) < 2 \/ parts[1] # "session" THEN "invalid"
    ELSE IF parts[2] = "new" /\ Len(parts) >= 3 /\ parts[3] = "attach" THEN "attach"
    ELSE IF parts[2] = "new" /\ Len(parts) >= 3 THEN "launch"
    ELSE IF ~Registered(parts[2]) THEN "nosession"
    ELSE IF Len(parts) < 3 THEN "missing"
    ELSE "handlers"

\* the name of the command is left out of the message
UnknownCommandUnnamed(command) == Error("Unknown command")

\* handlers.get(command) found nothing: f"Unknown command: {command}"
UnknownCommand(command) == Error("Unknown command: " \o command)

\* where handle_command sends the parts of a path, down to the handlers table
route(parts) ==
    IF Len(parts) < 2 \/ parts[1] # "session" THEN "invalid"
    ELSE IF parts[2] = "new" /\ Len(parts) >= 3 /\ parts[3] = "launch" THEN "launch"
    ELSE IF parts[2] = "new" /\ Len(parts) >= 3 /\ parts[3] = "attach" THEN "attach"
    ELSE IF ~Registered(parts[2]) THEN "nosession"
    ELSE IF Len(parts) < 3 THEN "missing"
    ELSE "handlers"

\* the handlers table of handle_command
handlers(command, session, data) ==
    CASE command = "close" -> handle_close(session) /\ UNCHANGED platform
      [] command = "findElement" -> handle_find_element(session, data) /\ UNCHANGED platform
      [] command = "findElements" -> handle_find_elements(session, data) /\ UNCHANGED platform
      [] command = "click" -> handle_click(session, data)
      [] command = "doubleClick" -> handle_double_click(session, data)
      [] command = "rightClick" -> handle_right_click(session, data)
      [] command = "type" -> handle_type(session, data)
      [] command = "clear" -> handle_clear(session, data)
      [] command = "getText" -> handle_get_text(session, data)
      [] command = "getName" -> handle_get_name(session, data)
      [] command = "getRole" -> handle_get_role(session, data)
      [] command = "getDescription" -> handle_get_description(session, data)
      [] command = "isVisible" -> handle_is_visible(session, data)
      [] command = "isEnabled" -> handle_is_enabled(session, data)
      [] command = "isFocused" -> handle_is_focused(session, data)
      [] command = "focus" -> handle_focus(session, data)
      [] command = "getBounds" -> handle_get_bounds(session, data)
      [] command = "getAttribute" -> handle_get_attribute(session, data)
      [] command = "screenshot" -> handle_screenshot(session)
      [] command = "elementScreenshot" -> handle_element_screenshot(session, data)
      [] command = "window" -> handle_window_info(session)
      [] command = "keys" -> handle_keys(session, data)

handle_command(path, data) ==
    LET parts == Parts(path)
        to == route(parts)
    IN
    /\ last' = [parts |-> parts, data |-> data]
    /\ IF to = "invalid" THEN reply(Error("Invalid path"))
       ELSE IF to = "launch" THEN handle_launch(data) /\ UNCHANGED platform
       ELSE IF to = "attach" THEN handle_attach(data) /\ UNCHANGED platform
       ELSE IF to = "nosession" THEN reply(Error("Session not found"))
       ELSE IF to = "missing" THEN reply(Error("Missing command"))
       ELSE LET session == sessions[parts[2]]
                command == parts[3]
            IN IF command \in CommandNames THEN handlers(command, session, data)
               ELSE reply(UnknownCommand(command))

-----------------------------------------------------------------------------
(* The requests the clients send *)

Att(pid, app_name, window_name) ==
    [NoData EXCEPT !.pid = pid, !.appName = app_name, !.windowName = window_name]

Lau(desktop_file, executable) ==
    [NoData EXCEPT !.desktopFile = desktop_file, !.executable = executable]

Fnd(strategy, value, parent_id) ==
    [NoData EXCEPT !.strategy = strategy, !.value = value, !.parentId = parent_id]

AttachData ==
    { Att(NonePid, NoneStr, <<"S", "E", "T">>),     \* a window of app1 only
      Att(NonePid, NoneStr, <<"s", "e">>),          \* a window of app1 and of app2
      Att(NonePid, NoneStr, <<"E", "E">>),          \* a window of app2 only
      Att(NonePid, NoneStr, <<"z">>),               \* no window
      Att(NonePid, NoneStr, <<>>),                  \* windowName ""
      Att(NonePid, <<"E", "D">>, NoneStr),          \* app1
      Att(NonePid, <<"z">>, NoneStr),               \* no application
      Att(12, NoneStr, NoneStr),                    \* app2
      Att(14, NoneStr, NoneStr),                    \* no application
      Att(14, <<"E", "D">>, NoneStr),               \* pid of none, name of app1
      Att(0, <<"E", "D">>, NoneStr),                \* pid 0, name of app1
      Att(NonePid, <<"z">>, <<"s", "e">>),          \* name of none, window of both
      Att(NonePid, <<>>, <<"s", "e">>),             \* appName "", window of both
      Att(12, NoneStr, <<"S", "E", "T">>),          \* app2, which has no such window
      Att(NonePid, NoneStr, NoneStr) }              \* no criterion

LaunchData ==
    { Lau(NoneStr, NoneStr), Lau(<<>>, <<>>), Lau(<<"x">>, NoneStr), Lau(NoneStr, <<"x">>) }

FindData ==
    { Fnd("role", <<"B", "u", "t", "t", "o", "n">>, None),
      Fnd("role", <<"z">>, None),
      Fnd("role", NoneStr, None),
      Fnd("name", <<"O", "K">>, None),
      Fnd("description", <<"z">>, None),
      Fnd("application", <<"S", "E", "T">>, None),
      Fnd("xpath", <<"z">>, None),
      Fnd("role", <<"b", "u", "t", "t", "o", "n">>, "ax-1"),
      Fnd("name", <<"G">>, "ax-9") }

SessionSegments == {SessionIdOf(k) : k \in 1..MaxSessions} \cup {"new", "nosuch"}

Request(path, data) == [path |-> path, data |-> data]

LaunchPath == <<"session", "new", "launch">>
AttachPath == <<"session", "new", "attach">>
FindCommands == {"findElement", "findElements"}

FindRequests(data) ==
    {Request(<<"session", SessionIdOf(k), c>>, d) :
        k \in 1..MaxSessions, c \in FindCommands, d \in data}

CloseRequests == {Request(<<"session", s, "close">>, NoData) : s \in SessionSegments}

RoutingRequests ==
    {Request(<<"session", s, c>>, NoData) :
        s \in SessionSegments, c \in {"getName", "bogus", "Close"}}
    \cup {Request(<<"session", "nosuch", c>>, NoData) : c \in {"attach", "launch"}}
    \cup {Request(<<"session", s>>, NoData) : s \in {SessionIdOf(1), "new"}}
    \cup {Request(<<"", "session", "", SessionIdOf(1), "close", "">>, NoData),
          Request(<<"session">>, NoData),
          Request(<<"sessions", "new", "attach">>, NoData)}

\* the requests of Spec: every launch and attach body, every path, one find
Requests ==
    {Request(LaunchPath, d) : d \in LaunchData}
    \cup {Request(AttachPath, d) : d \in AttachData}
    \cup FindRequests({Fnd("role", <<"B", "u", "t", "t", "o", "n">>, None)})
    \cup CloseRequests \cup RoutingRequests

\* the requests of HandleSpec: every find body, one launch and one attach
HandleRequests ==
    {Request(LaunchPath, Lau(NoneStr, <<"x">>)),
     Request(AttachPath, Att(NonePid, <<"E">>, NoneStr))}
    \cup FindRequests(FindData)
    \cup CloseRequests

El(element_id) == [NoData EXCEPT !.elementId = element_id]
Typ(element_id, text) == [NoData EXCEPT !.elementId = element_id, !.text = text]
Atr(element_id, name) == [NoData EXCEPT !.elementId = element_id, !.name = name]
Key(keys) == [NoData EXCEPT !.keys = keys]

\* the commands that take an elementId, and the three that take none
ElementCommands ==
    {"click", "doubleClick", "rightClick", "type", "clear", "getText", "getName",
     "getRole", "getDescription", "isVisible", "isEnabled", "isFocused", "focus",
     "getBounds", "getAttribute", "elementScreenshot"}
SessionCommands == {"screenshot", "window", "keys"}

\* ids of handles: issued ones, one never issued, and the key left out
ElementIds == {ElementIdOf(k) : k \in 1..MaxElements} \cup {"ax-9", None}

ElementFindData ==
    { Fnd("name", <<"s", "e">>, None),                \* the window itself
      Fnd("name", <<"O", "k">>, None),                \* btn8
      Fnd("description", <<"g", "o">>, None),         \* btn8 again
      Fnd("role", <<"b", "u", "t", "t", "o", "n">>, None),    \* btn10
      Fnd("role", <<"p", "a", "n", "e", "l">>, None),         \* pan7
      Fnd("role", <<"e", "n", "t", "r", "y">>, None) }        \* ent9

\* the requests of ElementSpec: one attach, finds that reach the nodes of each
\* kind, and every element command on every kind of id
ElementRequests ==
    {Request(AttachPath, Att(NonePid, <<"E">>, NoneStr)),
     Request(LaunchPath, Lau(NoneStr, <<"x">>)),
     Request(<<"session", SessionIdOf(1), "close">>, NoData),
     Request(<<"session", SessionIdOf(1), "bogus">>, NoData),
     Request(<<"session", SessionIdOf(1)>>, NoData),
     Request(<<"status">>, NoData)}
    \cup {Request(<<"session", SessionIdOf(1), "findElement">>, d) : d \in ElementFindData}
    \cup {Request(<<"session", SessionIdOf(k), "findElements">>,
                  Fnd("role", <<"b", "u", "t", "t", "o", "n">>, None)) : k \in 1..MaxSessions}
    \cup {Request(<<"session", SessionIdOf(1), c>>, El(id)) :
             c \in ElementCommands, id \in ElementIds}
    \cup {Request(<<"session", SessionIdOf(1), "type">>, Typ(id, <<"a", "b">>)) :
             id \in ElementIds}
    \cup {Request(<<"session", SessionIdOf(1), "getAttribute">>, Atr(id, <<"i", "d">>)) :
             id \in ElementIds}
    \cup {Request(<<"session", SessionIdOf(1), c>>, d) :
             c \in SessionCommands, d \in {NoData, Key(<<"a", "b">>)}}
    \cup {Request(<<"session", SessionIdOf(2), c>>, El(id)) :
             c \in {"getBounds", "getName", "click"}, id \in ElementIds}

\* the requests of BoundsSpec: sessions on either application, handles to the
\* same node by name, by description, by role and under a parent handle, and
\* getBounds on every id through every session
BoundsFindData ==
    { Fnd("name", <<"O", "k">>, None),
      Fnd("description", <<"g", "o">>, None),
      Fnd("role", <<"p", "a", "n", "e", "l">>, None),
      Fnd("role", <<"b", "u", "t", "t", "o", "n">>, None),
      Fnd("role", <<"b", "u", "t", "t", "o", "n">>, ElementIdOf(1)),
      Fnd("name", <<"s", "e">>, None) }

BoundsRequests ==
    {Request(AttachPath, Att(NonePid, <<"E", "d">>, NoneStr)),
     Request(AttachPath, Att(12, NoneStr, NoneStr))}
    \cup FindRequests(BoundsFindData)
    \cup {Request(<<"session", SessionIdOf(k), "getBounds">>, El(id)) :
             k \in 1..MaxSessions, id \in {ElementIdOf(n) : n \in 1..MaxElements}}

\* the requests of PathSpec: sessions on either application, a find in each
\* application's tree, closes, and element commands on every issued id through
\* every session
PathRequests ==
    {Request(AttachPath, Att(NonePid, <<"E", "d">>, NoneStr)),
     Request(AttachPath, Att(12, NoneStr, NoneStr))}
    \cup FindRequests({Fnd("name", <<"O", "k">>, None),
                       Fnd("role", <<"e", "n", "t", "r", "y">>, None)})
    \cup {Request(<<"session", SessionIdOf(k), "close">>, NoData) : k \in 1..MaxSessions}
    \cup {Request(<<"session", SessionIdOf(k), c>>, El(ElementIdOf(n))) :
             k \in 1..MaxSessions, c \in {"getName", "getBounds", "click"},
             n \in 1..MaxElements}
    \cup {Request(<<"session", SessionIdOf(k), "type">>,
                  Typ(ElementIdOf(n), <<"a">>)) :
             k \in 1..MaxSessions, n \in 1..MaxElements}

\* the requests of ListSpec: sessions on either application, findElements by
\* role, and a findElement and a close in between
ListRequests ==
    {Request(AttachPath, Att(NonePid, <<"E", "d">>, NoneStr)),
     Request(AttachPath, Att(12, NoneStr, NoneStr)),
     Request(<<"session", SessionIdOf(1), "findElement">>, Fnd("name", <<"O", "k">>, None)),
     Request(<<"session", SessionIdOf(1), "close">>, NoData)}
    \cup {Request(<<"session", SessionIdOf(k), "findElements">>, Fnd("role", v, None)) :
             k \in 1..MaxSessions,
             v \in {<<"b", "u", "t", "t", "o", "n">>, <<"e", "n", "t", "r", "y">>}}

\* the trees of SearchSpec: up to MaxNodes nodes n1, n2, ..., n1 the root, the
\* parent of each other node one of the nodes numbered before it, the children
\* of a node in the order of their numbers, every node with one of three labels
NodeOf(i) == "n" \o ToString(i)

Labels ==
    { [role |-> "PUSH_BUTTON", name |-> <<"O", "k">>, description |-> <<"g", "o">>],
      [role |-> "PANEL", name |-> <<>>, description |-> NoneStr],
      [role |-> "ENTRY", name |-> NoneStr, description |-> <<"O", "k">>] }

ChildrenOf(parent, i) ==
    LET kids == {j \in DOMAIN parent : parent[j] = i}
        RECURSIVE Sorted(_)
        Sorted(S) == IF S = {} THEN <<>>
                     ELSE LET least == CHOOSE j \in S : \A k \in S : j <= k
                          IN <<NodeOf(least)>> \o Sorted(S \ {least})
    IN Sorted(kids)

TreeOf(n, parent, label) ==
    [node \in {NodeOf(i) : i \in 1..n} |->
        LET i == CHOOSE k \in 1..n : NodeOf(k) = node IN
        [role |-> label[i].role, name |-> label[i].name,
         description |-> label[i].description,
         pid |-> NonePid, children |-> ChildrenOf(parent, i)]]

Parents(n) == {parent \in [2..n -> 1..n] : \A i \in 2..n : parent[i] < i}

DrawnTrees ==
    UNION {{TreeOf(n, parent, label) : parent \in Parents(n), label \in [1..n -> Labels]} :
              n \in 1..MaxNodes}

\* the queries of SearchSpec
Queries ==
    { <<"role", <<"B", "u", "t", "t", "o", "n">>>>,
      <<"role", <<"e", "n", "t", "r", "y">>>>,
      <<"role", <<"p", "a", "n", "e", "l">>>>,
      <<"name", <<"o", "K">>>>,
      <<"description", <<"O">>>> }

\* paths requested with GET
GetPaths ==
    {<<"session", SessionIdOf(1), c>> : c \in {"screenshot", "getName", "window"}}

IsNewSession(req) == req.path \in {LaunchPath, AttachPath}
IsFind(req) == Len(req.path) = 3 /\ req.path[3] \in FindCommands

\* the counters stop at the bounds; a find is sent to a registered session
Sendable(req) ==
    /\ IsNewSession(req) => session_counter < MaxSessions
    /\ IsFind(req) => element_counter < MaxElements /\ Registered(req.path[2])

-----------------------------------------------------------------------------
(* The system *)

\* the method and path of the request line
Http(method, path) == [method |-> method, path |-> path]
NoHttp == Http("none", <<>>)

\* send_error(501, "Unsupported method (%r)"): not a JSON object
Unsupported == [status |-> "501 Unsupported method"]

NoResponse == [idle |-> TRUE]
\* nothing drawn: the searches of the handlers run on Tree
NoProbe ==
    [drawn |-> FALSE, searched |-> FALSE, tree |-> EmptyMap, root |-> None,
     strategy |-> None, value |-> NoneStr,
     found |-> None, all |-> [raised |-> FALSE, found |-> <<>>]]

NoList == [session |-> None, data |-> NoData, ids |-> <<>>, nodes |-> <<>>]

\* other: a handle of the same node measured before id was
NoMeasure == [id |-> None, node |-> None, rect |-> [none |-> TRUE], other |-> None]
NoRequest == [parts |-> <<>>, data |-> NoData]

InitDesktops == {<<"app1", "app2">>, <<"app2", "app1">>}

Init ==
    /\ sessions = EmptyMap
    /\ session_counter = 0
    /\ elements = EmptyMap
    /\ element_counter = 0
    /\ desktop \in InitDesktops
    /\ raises = {}
    /\ launch = Idle
    /\ response = NoResponse
    /\ last = NoRequest
    /\ signals = 0
    /\ kill = "none"
    /\ issued = <<>>
    /\ issuedSessions = <<>>
    /\ closed = {}
    /\ http = NoHttp
    /\ effects = <<>>
    /\ texts = InitTexts
    /\ measured = NoMeasure
    /\ listed = NoList
    /\ probe = NoProbe

\* a request handled on its own thread, whatever the others are doing
ServeRequestThreaded(requests) ==
    /\ \E req \in requests :
         /\ Sendable(req)
         /\ handle_command(req.path, req.data)
         /\ http' = Http("POST", req.path)
    /\ UNCHANGED tree

\* do_POST up to handle_command's return: the single-threaded HTTPServer reads
\* the next request once the response to the one before is written
ServeRequest(requests) ==
    /\ ~launch.active
    /\ response = NoResponse
    /\ \E req \in requests :
         /\ Sendable(req)
         /\ handle_command(req.path, req.data)
         /\ http' = Http("POST", req.path)
    /\ UNCHANGED tree

ServeOneOf(requests) == ServeRequest(requests) /\ UNCHANGED observed

\* the same, the rectangle of a getBounds that returned one being noted
ServeBounds ==
    /\ ServeRequest(BoundsRequests)
    /\ measured' = IF Len(last'.parts) = 3 /\ last'.parts[3] = "getBounds"
                      /\ "x" \in DOMAIN response'
                   THEN [id |-> last'.data.elementId,
                         node |-> elements[last'.data.elementId],
                         rect |-> response',
                         other |-> IF measured.node # elements[last'.data.elementId]
                                   THEN None
                                   ELSE IF measured.id # last'.data.elementId
                                   THEN measured.id
                                   ELSE measured.other]
                   ELSE measured
    /\ UNCHANGED <<listed, probe>>

\* finds through sessions on either application, the list of a findElements
\* that returned one being noted; room is left for two lists of MaxElements
ServeLists ==
    /\ ~launch.active
    /\ response = NoResponse
    /\ \E req \in ListRequests :
         /\ IsNewSession(req) => session_counter < MaxSessions
         /\ IsFind(req) => element_counter < 2 * MaxElements /\ Registered(req.path[2])
         /\ handle_command(req.path, req.data)
         /\ http' = Http("POST", req.path)
    /\ listed' = IF Len(last'.parts) = 3 /\ last'.parts[3] = "findElements"
                    /\ "elements" \in DOMAIN response'
                 THEN [session |-> last'.parts[2],
                       data |-> last'.data,
                       ids |-> response'.elements,
                       nodes |-> [i \in 1..Len(response'.elements) |->
                                    elements'[response'.elements[i]]]]
                 ELSE listed
    /\ UNCHANGED <<tree, measured, probe>>

Serve == ServeOneOf(Requests)
ServeHandles == ServeOneOf(HandleRequests)
ServeElements == ServeOneOf(ElementRequests)

\* a GET request: RequestHandler defines do_POST only, so the base class
\* answers 501 Unsupported method and handle_command is not called
ServeGet ==
    /\ ~launch.active
    /\ response = NoResponse
    /\ \E path \in GetPaths : http' = Http("GET", path)
    /\ response' = Unsupported
    /\ UNCHANGED <<registries, tree, launch, last, handleLog, sessionLog, platform,
                   observed>>

Running == {desktop[i] : i \in 1..Len(desktop)}

\* a tree is drawn, with at most one node of it not answering
DrawTree ==
    /\ ~probe.drawn
    /\ \E t \in DrawnTrees :
         /\ probe' = [probe EXCEPT !.drawn = TRUE, !.tree = t]
         /\ raises' \in {{}} \cup {{n} : n \in DOMAIN t}
    /\ UNCHANGED <<registries, desktop, launch, response, last, handleLog, sessionLog,
                   http, platform, measured, listed>>

\* find_element_by_role / _by_name / _by_description and find_elements_by_role
\* called on a node of the drawn tree
Search ==
    /\ probe.drawn /\ ~probe.searched
    /\ \E root \in DOMAIN probe.tree \cap {NodeOf(1), NodeOf(2)}, q \in Queries :
         probe' = [probe EXCEPT !.searched = TRUE, !.root = root,
                                !.strategy = q[1], !.value = q[2],
                                !.found = find_element(root, q[1], q[2]),
                                !.all = find_elements_by_role(root, q[2])]
    /\ UNCHANGED <<registries, tree, launch, response, last, handleLog, sessionLog,
                   http, platform, measured, listed>>

\* an application registers with the accessibility bus
AppStarts ==
    /\ \E app \in Apps \ Running : desktop' = Append(desktop, app)
    /\ UNCHANGED <<registries, raises, launch, response, last, handleLog, sessionLog,
                   http, platform, observed>>

\* a node stops answering
NodeFails ==
    /\ \E n \in Fragile \ raises : raises' = raises \cup {n}
    /\ measured' = NoMeasure
    /\ listed' = NoList
    /\ UNCHANGED probe
    /\ UNCHANGED <<registries, desktop, launch, response, last, handleLog, sessionLog,
                   http, platform>>

\* the rest of do_POST: the response is written (or, after an exception, the
\* connection is dropped) and the server waits for the next request
Respond ==
    /\ ~launch.active
    /\ response # NoResponse
    /\ response' = NoResponse
    /\ last' = NoRequest
    /\ kill' = "none"
    /\ http' = NoHttp
    /\ effects' = <<>>
    /\ UNCHANGED <<registries, tree, launch, handleLog, issuedSessions, closed, signals,
                   texts, observed>>

Environment == AppStarts \/ NodeFails

Next == Serve \/ LaunchPoll \/ Respond \/ Environment

Spec == Init /\ [][Next]_vars

NextHandles == ServeHandles \/ LaunchPoll \/ Respond \/ Environment

HandleSpec == Init /\ [][NextHandles]_vars

\* element commands, sent with POST or with GET, on a tree whose nodes may
\* stop answering
NextElements == ServeElements \/ ServeGet \/ LaunchPoll \/ Respond \/ NodeFails

ElementSpec == Init /\ [][NextElements]_vars

\* finds and getBounds through sessions on either application
NextBounds == ServeBounds \/ Respond \/ NodeFails

BoundsSpec == Init /\ [][NextBounds]_vars

\* element commands through sessions on either application
ServePaths == ServeOneOf(PathRequests)

NextPaths == ServePaths \/ Respond

PathSpec == Init /\ [][NextPaths]_vars

\* findElements asked again and again
NextLists == ServeLists \/ Respond \/ NodeFails

ListSpec == Init /\ [][NextLists]_vars

\* the searches on their own, on every drawn tree
NextSearch == DrawTree \/ Search

SearchSpec == Init /\ [][NextSearch]_vars

\* do_POST runs handle_launch to its return: the polling loop is not abandoned
FairSpec == HandleSpec /\ WF_vars(LaunchPoll)

-----------------------------------------------------------------------------
(* Steps and facts the properties speak of *)

\* a step in which handle_command ran on a request
Served == last = NoRequest /\ last' # NoRequest

\* the step serves /session/<s>/<c>
ServedCommand(s, c) ==
    /\ Served
    /\ Len(last'.parts) >= 3
    /\ last'.parts[1] = "session" /\ last'.parts[2] = s /\ last'.parts[3] = c

\* the step serves /session/new/attach with body data
ServedAttach(data) == ServedCommand("new", "attach") /\ last'.data = data

NoDuplicates(seq) == \A i, j \in 1..Len(seq) : i # j => seq[i] # seq[j]

ClosedIds == {c[1] : c \in closed}

\* what the tree holds, whether or not the nodes answer
HasPid(app, pid) == Tree[app].pid = pid
HasName(app, name) == ContainsCI(name, OrEmpty(Tree[app].name))
OwnsWindow(app, name) ==
    \E i \in 1..Len(Tree[app].children) :
        LET child == Tree[app].children[i] IN
        /\ Tree[child].role \in WindowRoles
        /\ ContainsCI(name, OrEmpty(Tree[child].name))

\* the application and its children answer
Answers(app) ==
    ~Fails(app) /\ \A i \in 1..Len(Tree[app].children) : ~Fails(Tree[app].children[i])

\* the nodes search() can reach from root: root and everything below it
RECURSIVE Subtree(_)
Subtree(root) ==
    {root} \cup UNION {Subtree(Tree[root].children[i]) : i \in 1..Len(Tree[root].children)}

\* some node in the scope of a findElement meets the criterion, whether or not
\* the nodes answer
MatchInScope(root, strategy, value) ==
    CASE strategy = "role" ->
           /\ RoleOf(role_map, value) # None
           /\ \E n \in Subtree(root) : Tree[n].role = RoleOf(role_map, value)
      [] strategy = "name" ->
           \E n \in Subtree(root) : ContainsCI(value, OrEmpty(Tree[n].name))
      [] strategy = "description" ->
           \E n \in Subtree(root) : ContainsCI(value, OrEmpty(Tree[n].description))
      [] strategy = "application" ->
           \E i \in 1..Len(desktop) : HasName(desktop[i], value)
      [] OTHER -> FALSE

FindStrategies == {"role", "name", "description", "application"}

\* the nodes below and including root in depth-first pre-order: root, then the
\* pre-order of each child from left to right
RECURSIVE PreOrder(_, _)
PreOrder(t, root) ==
    LET RECURSIVE Each(_)
        Each(i) == IF i > Len(t[root].children) THEN <<>>
                   ELSE PreOrder(t, t[root].children[i]) \o Each(i + 1)
    IN <<root>> \o Each(1)

\* node n of tree t meets the query
Meets(t, n, strategy, value) ==
    CASE strategy = "role" -> t[n].role = RoleOf(role_map, value)
      [] strategy = "name" -> ContainsCI(value, OrEmpty(t[n].name))
      [] strategy = "description" -> ContainsCI(value, OrEmpty(t[n].description))

\* the first node of seq that meets the query, None when none does
FirstMeeting(t, seq, strategy, value) ==
    LET hits == {i \in 1..Len(seq) : Meets(t, seq[i], strategy, value)} IN
    IF hits = {} THEN None ELSE seq[CHOOSE i \in hits : \A j \in hits : i <= j]

\* positions, in enumeration order, of the applications owning such a window
Owners(name) == {i \in 1..Len(desktop) : OwnsWindow(desktop[i], name)}
Least(S) == CHOOSE i \in S : \A j \in S : i <= j

-----------------------------------------------------------------------------
(* C1: every id returned by store_element differs from every id it returned
   before, also when the same node is stored again. *)
C1_HandleIdsDistinct == NoDuplicates(issued)

C1_SameNodeStoredTwice ==
    \E i, j \in 1..Len(issued) : i < j /\ elements[issued[i]] = elements[issued[j]]

(* C2: close of a registered session answers success and removes exactly that
   session, whatever os.kill did; the other sessions and the handle table stay. *)
C2_CloseAlwaysRemoves ==
    [][\A s \in DOMAIN sessions :
         ServedCommand(s, "close") =>
           /\ response' = Success
           /\ DOMAIN sessions' = DOMAIN sessions \ {s}
           /\ \A t \in DOMAIN sessions' : sessions'[t] = sessions[t]
           /\ elements' = elements /\ element_counter' = element_counter]_vars

C2_ClosedThoughKillFailed ==
    /\ response = Success
    /\ Len(last.parts) >= 3 /\ last.parts[3] = "close"
    /\ last.parts[2] \in ClosedIds
    /\ kill = "raised"
    /\ DOMAIN sessions # {}

(* C3: a close of an id that was closed before answers "Session not found",
   sends no signal and changes nothing. *)
C3_SecondCloseIsError ==
    [][\A s \in ClosedIds :
         ServedCommand(s, "close") =>
           /\ response' = Error("Session not found")
           /\ s \notin DOMAIN sessions'
           /\ UNCHANGED <<registries, signals, kill, closed, issued, issuedSessions>>]_vars

C3_ClosedTwice ==
    /\ response = Error("Session not found")
    /\ Len(last.parts) >= 3 /\ last.parts[3] = "close"
    /\ last.parts[2] \in ClosedIds
    /\ signals > 0 /\ kill = "none"

(* C4: a closed session id is never registered again, and launch and attach
   never issue an id twice. *)
C4_ClosedIdsNeverReused ==
    /\ ClosedIds \cap DOMAIN sessions = {}
    /\ NoDuplicates(issuedSessions)

C4_IssuedAfterClose ==
    \E c \in closed : Len(issuedSessions) > c[2] /\ DOMAIN sessions # {}

(* C5: a launch that fails for want of desktopFile and executable, because the
   spawn raised, or because the pid never showed up, answers an error and
   leaves the session table, the session counter and the signals as they were. *)
LaunchFailures ==
    { Error("Missing desktopFile or executable"), Error("SpawnError"),
      Error("App not found in AT-SPI tree") }

C5_FailedLaunchChangesNothing ==
    [][/\ response' \in LaunchFailures \cup {Pending}
          => UNCHANGED <<sessions, session_counter, signals, kill>>
       /\ ServedCommand("new", "launch") /\ ~launch'.active
          => response' \in LaunchFailures
       /\ launch.active /\ ~launch'.active /\ find_app_by_pid(launch.pid) = None
          => response' \in LaunchFailures]_vars

C5_LaunchTimedOut ==
    /\ response = Error("App not found in AT-SPI tree")
    /\ DOMAIN sessions # {}
    /\ session_counter > 0

(* C6: the polling loop of launch runs at most MaxPolls (50) times: a launch
   in progress always ends, and it ends without the application only at
   the 50th poll, with "App not found in AT-SPI tree". *)
C6_LaunchTerminates ==
    /\ [](launch.polls < MaxPolls)
    /\ [][launch.active /\ ~launch'.active /\ find_app_by_pid(launch.pid) = None
            => launch.polls + 1 = MaxPolls
               /\ response' = Error("App not found in AT-SPI tree")]_vars
    /\ (launch.active ~> ~launch.active)

C6_LastPollPending == launch.active /\ launch.polls + 1 = MaxPolls

(* C7: an attach whose criteria match no running application, or that gives
   none, answers an error and leaves the session table and counter alone. *)
NoAppMatches(data) ==
    \A app \in Running :
        /\ data.pid # NonePid => ~HasPid(app, data.pid)
        /\ data.appName # NoneStr => ~HasName(app, data.appName)
        /\ data.windowName # NoneStr => ~OwnsWindow(app, data.windowName)

C7_AttachNoMatchIsError ==
    [][\A data \in AttachData :
         ServedAttach(data) /\ NoAppMatches(data) =>
           /\ IsError(response')
           /\ UNCHANGED <<sessions, session_counter>>]_vars

(* C8: an attach with a windowName alone binds the session to the first
   application, in enumeration order, owning a frame, window or dialog whose
   name contains it, and returns a sessionId (stated for an application that
   answers, with windows that answer). *)
C8_AttachByWindowName ==
    [][\A data \in AttachData :
         /\ ServedAttach(data)
         /\ data.pid = NonePid /\ data.appName = NoneStr
         /\ TruthyStr(data.windowName)
         /\ Owners(data.windowName) # {}
         /\ Answers(desktop[Least(Owners(data.windowName))])
         => /\ "sessionId" \in DOMAIN response'
            /\ response'.sessionId \in DOMAIN sessions'
            /\ sessions'[response'.sessionId].app
                 = desktop[Least(Owners(data.windowName))]]_vars

(* C9: the session an attach registers is bound by the first criterion present
   (pid, else appName, else windowName), never by a later one. *)
ChosenBy(app, data, pid_given, name_given) ==
    IF pid_given THEN HasPid(app, data.pid)
    ELSE IF name_given THEN HasName(app, data.appName)
    ELSE OwnsWindow(app, data.windowName)

NewSessions == DOMAIN sessions' \ DOMAIN sessions

C9_FirstPresentCriterion ==
    [][\A data \in AttachData :
         ServedAttach(data) =>
           \A s \in NewSessions :
             ChosenBy(sessions'[s].app, data,
                      data.pid # NonePid, data.appName # NoneStr)]_vars

(* C9, amended: a pid of 0 and an appName of "" count as absent. *)
C9_FirstTruthyCriterion ==
    [][\A data \in AttachData :
         ServedAttach(data) =>
           \A s \in NewSessions :
             ChosenBy(sessions'[s].app, data,
                      TruthyPid(data.pid), TruthyStr(data.appName))]_vars

C9_HigherFoundNothing ==
    /\ last.parts = <<"session", "new", "attach">>
    /\ last.data = Att(14, <<"E", "D">>, NoneStr)
    /\ "app1" \in Running /\ "app1" \notin raises
    /\ response = Error("App not found")

(* C10: /session/S/C with S not registered, other than /session/new/launch and
   /session/new/attach, answers "Session not found" whatever C is, and changes
   nothing. *)
C10_UnknownSessionIsError ==
    [][/\ Served
       /\ Len(last'.parts) >= 3
       /\ last'.parts[1] = "session"
       /\ last'.parts[2] \notin DOMAIN sessions
       /\ ~(last'.parts[2] = "new" /\ last'.parts[3] \in {"launch", "attach"})
       => /\ response' = Error("Session not found")
           /\ UNCHANGED <<registries, launch, signals, kill, closed, issued,
                          issuedSessions>>]_vars

C10_UnknownSessionServed ==
    /\ response = Error("Session not found")
    /\ Len(last.parts) >= 3
    /\ last.parts[2] = "new" /\ last.parts[3] = "bogus"
    /\ DOMAIN sessions # {}

(* C11: on a registered session, a command name outside the 22 of the handlers
   table answers "Unknown command: <name>" with that very name, and changes
   neither the session registry nor the handle table. *)
C11_UnknownCommandNamed ==
    [][/\ Served
       /\ Len(last'.parts) >= 3
       /\ last'.parts[2] \in DOMAIN sessions
       /\ last'.parts[3] \notin CommandNames
       => /\ response' = [error |-> "Unknown command: " \o last'.parts[3]]
          /\ UNCHANGED registries]_vars

C11_UnknownCommandServed ==
    /\ Len(last.parts) >= 3
    /\ last.parts[2] \in DOMAIN sessions
    /\ last.parts[3] = "Close"
    /\ IsError(response)

(* C12: a request for /session/S/<command>, S registered and <command> one of
   the 22 command names, is answered with a JSON object whether it is sent
   with POST or with GET (here: while every node answers). *)
C12_GetAndPostAnswered ==
    [][/\ http = NoHttp /\ http' # NoHttp
       /\ Len(http'.path) = 3
       /\ http'.path[1] = "session"
       /\ http'.path[2] \in DOMAIN sessions
       /\ http'.path[3] \in CommandNames
       /\ raises = {}
       => response' \notin {Unsupported, Escaped, NoResponse}]_vars

(* C13: every response handle_command returns is an object holding either the
   key error alone or result keys without error, never both. *)
ResultKeys ==
    {"success", "sessionId", "pid", "elementId", "elements", "value", "data",
     "title", "x", "y", "width", "height"}

C13_ErrorOrResult ==
    response \notin {NoResponse, Pending, Escaped, Unsupported} =>
        IF "error" \in DOMAIN response
        THEN DOMAIN response = {"error"}
        ELSE DOMAIN response # {} /\ DOMAIN response \subseteq ResultKeys

C13_WindowInfoReturned ==
    /\ Len(last.parts) = 3 /\ last.parts[3] = "window"
    /\ DOMAIN response = {"title", "x", "y", "width", "height"}

(* C14: findElement on a registered session, with a strategy among role, name,
   description and application and a value that no node in the search scope
   matches, answers {elementId: null}. *)
C14_NoMatchIsNull ==
    [][\A s \in DOMAIN sessions :
         /\ ServedCommand(s, "findElement")
         /\ last'.data.strategy \in FindStrategies
         /\ last'.data.value # NoneStr
         /\ ~MatchInScope(FindRoot(sessions[s], last'.data.parentId),
                          last'.data.strategy, last'.data.value)
         => response' = [elementId |-> NullId]]_vars

(* C15: a command on a registered session whose node has stopped answering
   (getName, getRole, getDescription, getText, getBounds, click, type, clear,
   focus on the element of elementId; window on the session's window) answers
   {error: ...}: the exception does not leave handle_command. *)
StaleChecked ==
    {"getName", "getRole", "getDescription", "getText", "getBounds", "click", "type",
     "clear", "focus"}

C15_StaleNodeIsError ==
    [][\A s \in DOMAIN sessions :
         \/ /\ \E c \in StaleChecked : ServedCommand(s, c)
            /\ ElementArg(last'.data) \in raises
         \/ /\ ServedCommand(s, "window")
            /\ SessionRoot(sessions[s]) \in raises
         => IsError(response') /\ response' # Escaped]_vars

(* C16: click, doubleClick, rightClick, type, clear and focus given an
   elementId that store_element never returned answer "Element not found",
   invoke no platform action, synthesize no pointer or keyboard event, and
   leave both registries and the texts as they were. *)
ActionCommands == {"click", "doubleClick", "rightClick", "type", "clear", "focus"}

NeverIssued(id) == \A i \in 1..Len(issued) : issued[i] # id

C16_UnknownElementNoAction ==
    [][\A s \in DOMAIN sessions :
         /\ \E c \in ActionCommands : ServedCommand(s, c)
         /\ NeverIssued(last'.data.elementId)
         => /\ response' = Error("Element not found")
            /\ effects' = <<>>
            /\ UNCHANGED <<registries, texts, issued>>]_vars

C16_UnknownElementClicked ==
    /\ Len(last.parts) = 3 /\ last.parts[3] = "click"
    /\ last.data.elementId = "ax-9"
    /\ elements # EmptyMap
    /\ response = Error("Element not found")

(* C17: the handle table only grows: an id once in the table stays in it,
   bound to the same node, through every later command, the close of the
   session it was found under included. *)
C17_HandlesKept ==
    [][\A id \in DOMAIN elements :
         id \in DOMAIN elements' /\ elements'[id] = elements[id]]_vars

C17_HandleOutlivesSession ==
    /\ SessionIdOf(1) \in ClosedIds
    /\ Len(last.parts) = 3 /\ last.parts[2] = SessionIdOf(2) /\ last.parts[3] = "getBounds"
    /\ last.data.elementId \in DOMAIN elements
    /\ response = BoundsOf(Component[elements[last.data.elementId]])

(* C18: every node findElement (strategy role, name or description) and
   findElements return lies in the subtree of the search root: the node of
   parentId when the request carries one, else the session's window, else the
   session's application. *)
ReturnedIds(r) ==
    IF "elementId" \in DOMAIN r
    THEN IF r.elementId = NullId THEN {} ELSE {r.elementId}
    ELSE IF "elements" \in DOMAIN r
    THEN {r.elements[i] : i \in 1..Len(r.elements)}
    ELSE {}

SearchRoot(session, parent_id) ==
    IF parent_id # None THEN elements[parent_id] ELSE SessionRoot(session)

C18_FoundUnderSearchRoot ==
    [][\A s \in DOMAIN sessions :
         /\ \/ /\ ServedCommand(s, "findElement")
               /\ last'.data.strategy \in {"role", "name", "description"}
            \/ ServedCommand(s, "findElements")
         /\ last'.data.parentId \in DOMAIN elements \cup {None}
         => \A id \in ReturnedIds(response') :
               elements'[id] \in Subtree(SearchRoot(sessions[s], last'.data.parentId))]_vars

(* C19 as stated: getBounds on a resolvable element always answers x, y, width
   and height: the node's position and size when they can be read, and 0 for
   all four when the node has no component interface or the platform call
   raises. *)
C19_ZeroOnAnyFailure ==
    [][\A s \in DOMAIN sessions :
         ServedCommand(s, "getBounds") /\ last'.data.elementId \in DOMAIN elements
         => LET n == elements[last'.data.elementId] IN
            response' = IF ~Fails(n) /\ Component[n].has
                        THEN [x |-> Component[n].x, y |-> Component[n].y,
                              width |-> Component[n].width, height |-> Component[n].height]
                        ELSE [x |-> 0, y |-> 0, width |-> 0, height |-> 0]]_vars

(* C19 amended: getBounds on a resolvable element answers the node's position
   and size when they can be read, 0 for all four of x, y, width and height
   when the node has no component interface, and {error: ...} without those
   keys when the platform call raises. *)
C19_ZeroWithoutComponent ==
    [][\A s \in DOMAIN sessions :
         ServedCommand(s, "getBounds") /\ last'.data.elementId \in DOMAIN elements
         => LET n == elements[last'.data.elementId] IN
            IF Fails(n) THEN DOMAIN response' = {"error"}
            ELSE IF Component[n].has
            THEN response' = [x |-> Component[n].x, y |-> Component[n].y,
                              width |-> Component[n].width, height |-> Component[n].height]
            ELSE response' = [x |-> 0, y |-> 0, width |-> 0, height |-> 0]]_vars

C19_BoundsOfStaleNode ==
    /\ Len(last.parts) = 3 /\ last.parts[3] = "getBounds"
    /\ last.data.elementId \in DOMAIN elements
    /\ elements[last.data.elementId] \in raises
    /\ IsError(response)

(* C20: while the tree does not change, getBounds returns the same rectangle
   for every handle bound to one node, whatever strategy, search root or
   session the handle was found with and whatever session asks. *)
C20_SameNodeSameBounds ==
    [][\A s \in DOMAIN sessions :
         /\ ServedCommand(s, "getBounds")
         /\ last'.data.elementId \in DOMAIN elements
         /\ elements[last'.data.elementId] = measured.node
         => response' = measured.rect]_vars

C20_SecondHandleMeasured ==
    /\ Len(last.parts) = 3 /\ last.parts[3] = "getBounds"
    /\ last.parts[2] = SessionIdOf(2)
    /\ DOMAIN sessions = {SessionIdOf(1), SessionIdOf(2)}
    /\ sessions[SessionIdOf(1)].app # sessions[SessionIdOf(2)].app
    /\ measured.id = last.data.elementId
    /\ measured.rect = response
    /\ measured.other \notin {None, measured.id}
    /\ Component[measured.node].has

(* C21: the server handles one command at a time: handle_command starts on a
   request only when no other request is being handled (none awaits its
   response, no launch is polling), and no two finds get the same handle id
   and no two launches or attaches the same session id. *)
C21_OneCommandAtATime ==
    [][last' # last /\ last' # NoRequest
       => /\ response = NoResponse
          /\ ~launch.active
          /\ NoDuplicates(issued')
          /\ NoDuplicates(issuedSessions')]_vars

C21_AttachAfterLaunchReturned ==
    /\ Len(last.parts) = 3 /\ last.parts[3] = "attach"
    /\ "sessionId" \in DOMAIN response
    /\ Len(issuedSessions) = 2
    /\ \E s \in DOMAIN sessions : sessions[s].pid = 13 /\ s # response.sessionId

(* C22: the application, pid and window of a session never change after its
   creation: a record is added whole by launch or attach only, removed whole
   by its own close only, and left as it is by every other step. *)
C22_SessionRecordsFixed ==
    [][/\ \A s \in DOMAIN sessions \cap DOMAIN sessions' : sessions'[s] = sessions[s]
       /\ \A s \in DOMAIN sessions' \ DOMAIN sessions :
             /\ sessions'[s].id = s
             /\ \/ ServedCommand("new", "attach")
                \/ launch.active /\ last.parts = LaunchPath
                \/ ServedCommand("new", "launch")
       /\ \A s \in DOMAIN sessions \ DOMAIN sessions' : ServedCommand(s, "close")]_vars

C22_SessionKeptThroughCommands ==
    /\ DOMAIN sessions = {SessionIdOf(2)}
    /\ SessionIdOf(1) \in ClosedIds
    /\ sessions[SessionIdOf(2)].window # None
    /\ Len(last.parts) = 3 /\ last.parts[2] = SessionIdOf(2) /\ last.parts[3] = "click"
    /\ effects # <<>>

(* C23 as stated: two findElements calls with strategy role and value button,
   one after the other on a session with the tree unchanged in between,
   return identical ordered lists. *)
Button == <<"b", "u", "t", "t", "o", "n">>

RepeatedList(s) ==
    /\ ServedCommand(s, "findElements")
    /\ last'.data = Fnd("role", Button, None)
    /\ listed.session = s /\ listed.data = last'.data
    /\ "elements" \in DOMAIN response'

C23_SameListOfIds ==
    [][\A s \in DOMAIN sessions :
         RepeatedList(s) => response'.elements = listed.ids]_vars

(* C23 amended: the two calls return lists of the same length whose handles
   are bound to the same nodes in the same order; the handle ids of the second
   list are new ones. *)
C23_SameListOfNodes ==
    [][\A s \in DOMAIN sessions :
         RepeatedList(s) =>
           /\ Len(response'.elements) = Len(listed.nodes)
           /\ \A i \in 1..Len(listed.nodes) :
                 elements'[response'.elements[i]] = listed.nodes[i]
           /\ \A i \in 1..Len(listed.ids) : \A j \in 1..Len(response'.elements) :
                 listed.ids[i] # response'.elements[j]]_vars

C23_ButtonsListedTwice ==
    /\ Len(last.parts) = 3 /\ last.parts[3] = "findElements"
    /\ last.data = Fnd("role", Button, None)
    /\ response = [elements |-> <<ElementIdOf(3), ElementIdOf(4)>>]
    /\ listed.ids = response.elements
    /\ elements[ElementIdOf(1)] = elements[ElementIdOf(3)]
    /\ elements[ElementIdOf(2)] = elements[ElementIdOf(4)]

(* C24: on every tree whose nodes answer, and for every role, name or
   description query, find_element_by_* returns the first node in depth-first
   pre-order from the root that meets the query, and None exactly when no node
   below the root meets it. *)
C24_FirstInPreOrder ==
    probe.searched /\ raises = {} =>
        probe.found = FirstMeeting(probe.tree, PreOrder(probe.tree, probe.root),
                                   probe.strategy, probe.value)

C24_DeepBeforeShallow ==
    /\ probe.searched /\ raises = {}
    /\ probe.root = NodeOf(1)
    /\ probe.tree[NodeOf(1)].children = <<NodeOf(2), NodeOf(3)>>
    /\ probe.tree[NodeOf(2)].children = <<NodeOf(4)>>
    /\ probe.found = NodeOf(4)
    /\ Meets(probe.tree, NodeOf(3), probe.strategy, probe.value)

(* C25: on every tree whose nodes answer, and for every role name that
   find_element_by_role knows, find_elements_by_role returns exactly the nodes
   below the root that have the role, in pre-order; so its first entry is the
   node find_element_by_role returns and it is empty exactly when that is
   None. *)
C25_AllInPreOrder ==
    /\ probe.searched /\ raises = {}
    /\ probe.strategy = "role" /\ RoleOf(role_map, probe.value) # None
    => /\ ~probe.all.raised
       /\ probe.all.found =
            SelectSeq(PreOrder(probe.tree, probe.root),
                      LAMBDA n : Meets(probe.tree, n, "role", probe.value))
       /\ (probe.all.found = <<>>) = (probe.found = None)
       /\ probe.all.found # <<>> => probe.all.found[1] = probe.found

\* pre-order of the nodes below root, the nodes that do not answer left out
\* together with what is below them
RECURSIVE Remaining(_, _)
Remaining(t, root) ==
    LET RECURSIVE Each(_)
        Each(i) == IF i > Len(t[root].children) THEN <<>>
                   ELSE Remaining(t, t[root].children[i]) \o Each(i + 1)
    IN IF Fails(root) THEN <<>> ELSE <<root>> \o Each(1)

(* C26: a search from a root that answers does not end in an exception when a
   node below it fails to answer: the node is skipped, and the search returns
   the first match among the remaining nodes (None when there is none). *)
C26_FailingChildSkipped ==
    probe.searched /\ ~Fails(probe.root) =>
        /\ probe.found # Raised
        /\ probe.found = FirstMeeting(probe.tree, Remaining(probe.tree, probe.root),
                                      probe.strategy, probe.value)

\* the step serves command c on an id of the handle table, through any session
ServedOnHandle(c) ==
    /\ \E s \in DOMAIN sessions : ServedCommand(s, c)
    /\ last'.data.elementId \in DOMAIN elements

\* the node the served command's elementId is bound to
Target == elements[last'.data.elementId]

\* node n answers and its action interface has an action named click,
\* activate or press
Clickable(n) ==
    /\ ~Fails(n) /\ Action[n].has
    /\ \E k \in 1..Len(Action[n].names) : Action[n].names[k] \in {"click", "activate", "press"}

(* C27: a click on a node with an action named click, activate or press
   invokes the first such action by its index and nothing else, no pointer
   event, and answers success when the action returned true and "Click failed"
   when it returned false; a click that answers success on any node did
   perform an action or a pointer event, so it answers an error when neither
   could be done. *)
C27_SemanticClick ==
    [][ServedOnHandle("click") =>
         /\ Clickable(Target) =>
              \E k \in 1..Len(Action[Target].names), done \in BOOLEAN :
                 /\ Action[Target].names[k] \in {"click", "activate", "press"}
                 /\ \A j \in 1..(k - 1) :
                       Action[Target].names[j] \notin {"click", "activate", "press"}
                 /\ effects' = <<DoAction(Target, k - 1, done)>>
                 /\ response' = IF done THEN Success ELSE Error("Click failed")
         /\ response' \in {Success, Error("Click failed")}
         /\ response' = Success =>
              /\ Len(effects') = 1
              /\ \/ effects'[1].kind = "do_action" /\ effects'[1].text = <<"True">>
                 \/ effects'[1].kind = "b1c"]_vars

\* the press action of btn10, at index 1 before click at index 2, returned False
C27_PressReturnedFalse ==
    /\ Len(last.parts) = 3 /\ last.parts[3] = "click"
    /\ last.data.elementId \in DOMAIN elements
    /\ elements[last.data.elementId] = "btn10"
    /\ effects = <<DoAction("btn10", 1, FALSE)>>
    /\ response = Error("Click failed")

\* one primary-button click at the centre of node n's screen bounds
CentreClick(n) ==
    <<MouseEvent(Component[n].x + (Component[n].width \div 2),
                 Component[n].y + (Component[n].height \div 2), "b1c")>>

\* node n has no action interface, or one with no action named click,
\* activate or press
NoClickAction(n) ==
    \/ ~Action[n].has
    \/ \A k \in 1..Len(Action[n].names) :
          Action[n].names[k] \notin {"click", "activate", "press"}

(* C28 as stated: every click on a node with no action interface, or with
   none of click, activate and press among its actions, synthesizes exactly one
   primary-button click at (x + width div 2, y + height div 2). *)
C28_AlwaysOneCentreClick ==
    [][ServedOnHandle("click") /\ NoClickAction(Target) =>
         effects' = CentreClick(Target)]_vars

(* C28, amended: a click on such a node that has the component interface and
   answers success synthesized exactly one primary-button click at
   (x + width div 2, y + height div 2) of its bounds, the halves rounded down;
   a click on such a node that answers an error synthesized nothing. *)
C28_CentreClickWhenDone ==
    [][ServedOnHandle("click") /\ NoClickAction(Target) =>
         /\ response' = Success =>
              Component[Target].has /\ effects' = CentreClick(Target)
         /\ response' # Success => effects' = <<>>
         /\ ~Component[Target].has => response' = Error("Click failed")]_vars

\* btn8, bounds (50, 50, 100, 20), only action "toggle": clicked at (100, 60)
C28_ClickedAtCentre ==
    /\ Len(last.parts) = 3 /\ last.parts[3] = "click"
    /\ last.data.elementId \in DOMAIN elements
    /\ elements[last.data.elementId] = "btn8"
    /\ Component["btn8"] = Rect(50, 50, 100, 20)
    /\ effects = <<MouseEvent(100, 60, "b1c")>>
    /\ response = Success

\* one pointer event with the given code at the centre of node n's bounds
CentreEvent(n, code) ==
    <<MouseEvent(Component[n].x + (Component[n].width \div 2),
                 Component[n].y + (Component[n].height \div 2), code)>>

\* what a served pointer command with the given code and failure message did
PointerOnly(code, failed) ==
    /\ \A k \in 1..Len(effects') : effects'[k].kind # "do_action"
    /\ IF Component[Target].has
       THEN \/ effects' = CentreEvent(Target, code) /\ response' = Success
            \/ effects' = <<>> /\ response' = Error("PlatformError")
       ELSE /\ effects' = <<>>
            /\ response' \in {Error(failed), Error("PlatformError")}
            /\ ~Fails(Target) => response' = Error(failed)

(* C29: doubleClick and rightClick never invoke an action of the node's action
   interface. On a node with the component interface each synthesizes exactly
   one pointer event at the centre of the node's screen bounds, with code b1d
   and b3c respectively, and answers success; the one exception is a platform
   call that raises, which is answered as an error with no event. On a node
   without the component interface each synthesizes nothing and answers an
   error. *)
C29_PointerOnly ==
    [][/\ ServedOnHandle("doubleClick") => PointerOnly("b1d", "Double click failed")
       /\ ServedOnHandle("rightClick") => PointerOnly("b3c", "Right click failed")]_vars

\* btn10 has the actions press and click, and is double-clicked by pointer
C29_DoubleClickOnClickable ==
    /\ Len(last.parts) = 3 /\ last.parts[3] = "doubleClick"
    /\ last.data.elementId \in DOMAIN elements
    /\ elements[last.data.elementId] = "btn10"
    /\ Clickable("btn10")
    /\ effects = <<MouseEvent(6, 8, "b1d")>>
    /\ response = Success

\* the effects of a type command leave out the grab of the focus
Edits(fx) == SelectSeq(fx, LAMBDA e : e.kind # "grab_focus")

(* C30: a type command that answers success on a node with the editable-text
   interface leaves the node's text equal to the typed text, whatever the text
   was: content of non-zero length was deleted from 0 to its length, and then
   the typed text was inserted at position 0. *)
C30_TypeReplaces ==
    [][ServedOnHandle("type") /\ Target \in EditableText /\ response' = Success =>
         LET typed == OrEmpty(last'.data.text)      \* data.get("text", "")
             before == texts[Target]
         IN /\ texts'[Target] = typed
            /\ Edits(effects') =
                 (IF Len(before) > 0
                  THEN <<Effect("delete_text", Target, 0, Len(before), 0, 0, <<>>)>>
                  ELSE <<>>)
                 \o <<Effect("insert_text", Target, 0, Len(typed), 0, 0, typed)>>]_vars

\* "ab" typed into ent9 over a text of two characters
C30_TypedOverOldText ==
    /\ Len(last.parts) = 3 /\ last.parts[3] = "type"
    /\ last.data.elementId \in DOMAIN elements
    /\ elements[last.data.elementId] = "ent9"
    /\ last.data.text = <<"a", "b">>
    /\ response = Success
    /\ texts["ent9"] = <<"a", "b">>
    /\ effects = <<GrabFocus("ent9"), DeleteText("ent9", 2), InsertText("ent9", <<"a", "b">>)>>

(* C31: in a type command the grab of the focus is best effort: whether the
   node has no component interface or the grab fails, the command goes on to
   the insertion or to the keyboard events, and never answers an error for the
   grab alone. *)
C31_FocusNeverFatal ==
    [][ServedOnHandle("type") /\ ~Fails(Target) =>
         /\ \A k \in 1..Len(effects') : effects'[k].kind # "grab_focus_raised"
         /\ Target \in EditableText =>
              \E k \in 1..Len(effects') : effects'[k].kind = "insert_text"
         /\ Target \notin EditableText /\ response' = Success =>
              Edits(effects') = KeyboardEvents(OrEmpty(last'.data.text))]_vars

\* the keyboard events among the effects, in the order they were sent
KeysSent(fx) == SelectSeq(fx, LAMBDA e : e.kind = "key")

IsPrefix(a, b) == Len(a) <= Len(b) /\ a = SubSeq(b, 1, Len(a))

(* C32: a type command on a node that answers and has no editable-text
   interface sends one keyboard event per character of the text, in the order
   of the characters, and answers success when no event raised; when an event
   raises, the events sent before it stay sent and the answer is "Type
   failed". So the events sent are a prefix of the text's events, and the
   answer is an error exactly when an event is missing. *)
C32_OneEventPerCharacter ==
    [][ServedOnHandle("type") /\ ~Fails(Target) /\ Target \notin EditableText =>
         LET typed == OrEmpty(last'.data.text) IN
         /\ IsPrefix(KeysSent(effects'), KeyboardEvents(typed))
         /\ (response' = Success) = (KeysSent(effects') = KeyboardEvents(typed))
         /\ response' \in {Success, Error("Type failed")}
         /\ texts' = texts]_vars

(* C33: clear on a node that answers and has the editable-text interface
   deletes its text from 0 to its length when the text is not empty and leaves
   it empty; clear on a node without the editable-text interface changes
   nothing; both answer success. *)
C33_ClearEmptiesOrNothing ==
    [][ServedOnHandle("clear") /\ ~Fails(Target) =>
         /\ response' = Success
         /\ IF Target \in EditableText /\ texts[Target] # <<>>
            THEN /\ effects' = <<Effect("delete_text", Target, 0, Len(texts[Target]),
                                        0, 0, <<>>)>>
                 /\ texts'[Target] = <<>>
                 /\ \A n \in DOMAIN texts \ {Target} : texts'[n] = texts[n]
            ELSE effects' = <<>> /\ texts' = texts]_vars

\* ent9 cleared of a text of two characters
C33_EntryCleared ==
    /\ Len(last.parts) = 3 /\ last.parts[3] = "clear"
    /\ last.data.elementId \in DOMAIN elements
    /\ elements[last.data.elementId] = "ent9"
    /\ effects = <<DeleteText("ent9", 2)>>
    /\ texts["ent9"] = <<>>
    /\ response = Success

\* the step serves screenshot or elementScreenshot through session s, and the
\* node whose picture is asked for
ServedShot(s) == ServedCommand(s, "screenshot") \/ ServedCommand(s, "elementScreenshot")
ShotNode(s) ==
    IF last'.parts[3] = "screenshot" THEN SessionRoot(sessions[s])
    ELSE IF last'.data.elementId \in DOMAIN elements THEN elements[last'.data.elementId]
    ELSE None

\* the runs of a capture utility among the effects
Runs(fx, utility) == SelectSeq(fx, LAMBDA e : e.kind = utility)

\* scrot ran exactly when gnome-screenshot failed, on the rectangle
\* gnome-screenshot was given, and each utility ran at most once
SecondaryOnlyOnFailure(fx) ==
    LET first == Runs(fx, "gnome-screenshot")
        second == Runs(fx, "scrot")
    IN /\ Len(first) <= 1 /\ Len(second) <= 1
       /\ (Len(second) = 1) = (Len(first) = 1 /\ first[1].text = <<"False">>)
       /\ Len(second) = 1 =>
            /\ second[1].x = first[1].x /\ second[1].y = first[1].y
            /\ second[1].width = first[1].width /\ second[1].height = first[1].height

\* both utilities ran and failed
BothFailed(fx) ==
    /\ Len(Runs(fx, "gnome-screenshot")) = 1 /\ Len(Runs(fx, "scrot")) = 1
    /\ Runs(fx, "gnome-screenshot")[1].text = <<"False">>
    /\ Runs(fx, "scrot")[1].text = <<"False">>

\* a utility ran and succeeded
OneSucceeded(fx) == \E k \in 1..Len(fx) :
    fx[k].kind \in {"gnome-screenshot", "scrot"} /\ fx[k].text = <<"True">>

\* the base64 texts of the two captured files: bytes 89 50 4E 47, and 42 4D
Encoded ==
    {<<"i", "V", "B", "O", "R", "w", "=", "=">>, <<"Q", "k", "0", "=">>}

(* C34 as stated: a screenshot runs the secondary utility, on the same
   rectangle, exactly when the primary failed; it answers "Screenshot failed"
   only when both utilities failed, and otherwise returns the base64 text of
   the captured bytes. *)
C34_FailureOnlyAfterBoth ==
    [][\A s \in DOMAIN sessions :
         ServedShot(s) /\ ShotNode(s) # None =>
           /\ SecondaryOnlyOnFailure(effects')
           /\ IF BothFailed(effects') THEN response' = Error("Screenshot failed")
              ELSE response' \in {[data |-> d] : d \in Encoded}]_vars

(* C34, amended: a screenshot runs the secondary utility, on the same
   rectangle, exactly when the primary failed; it answers "Screenshot failed"
   when both utilities failed and when no utility was run, and returns the
   base64 text of the captured bytes when a utility succeeded. *)
C34_FailureUnlessCaptured ==
    [][\A s \in DOMAIN sessions :
         ServedShot(s) /\ ShotNode(s) # None =>
           /\ SecondaryOnlyOnFailure(effects')
           /\ Len(Runs(effects', "gnome-screenshot")) = 1 =>
                /\ ~Fails(ShotNode(s)) /\ Component[ShotNode(s)].has
                /\ Runs(effects', "gnome-screenshot")[1].x = Component[ShotNode(s)].x
                /\ Runs(effects', "gnome-screenshot")[1].y = Component[ShotNode(s)].y
                /\ Runs(effects', "gnome-screenshot")[1].width
                     = Component[ShotNode(s)].width
                /\ Runs(effects', "gnome-screenshot")[1].height
                     = Component[ShotNode(s)].height
           /\ IF OneSucceeded(effects')
              THEN response' \in {[data |-> d] : d \in Encoded}
              ELSE /\ response' = Error("Screenshot failed")
                   /\ BothFailed(effects') \/ Runs(effects', "gnome-screenshot") = <<>>]_vars

\* gnome-screenshot failed on the window frm5, scrot captured the same
\* rectangle, and the bytes 42 4D came back as "Qk0="
C34_CapturedBySecondary ==
    /\ Len(last.parts) = 3 /\ last.parts[3] = "screenshot"
    /\ Runs(effects, "gnome-screenshot")
         = <<Effect("gnome-screenshot", None, 0, 0, 200, 100, <<"False">>)>>
    /\ Runs(effects, "scrot") = <<Effect("scrot", None, 0, 0, 200, 100, <<"True">>)>>
    /\ response = [data |-> <<"Q", "k", "0", "=">>]

\* the last poll of a launch
LaunchEnds == launch.active /\ ~launch'.active

\* application number i of the desktop answers and reports process id pid
Reports(i, pid) == ~Fails(desktop[i]) /\ Tree[desktop[i]].pid = pid

\* w is the first child of app that is a frame, a window or a dialog, or None
\* when app has no such child
MainWindowOf(app, w) ==
    LET kids == Tree[app].children
        wins == {k \in 1..Len(kids) : Tree[kids[k]].role \in {"FRAME", "WINDOW", "DIALOG"}}
    IN IF wins = {} THEN w = None
       ELSE w = kids[CHOOSE k \in wins : \A j \in wins : k <= j]

(* C35: a launch returns a sessionId only from a poll that found a top-level
   application reporting the process id of the spawned process; the session
   registered under that id records that application (the first such in the
   desktop's order), the spawned process id and the application's first
   frame, window or dialog child if it has one, and the pid of the response
   is the recorded pid. *)
C35_LaunchBindsSpawned ==
    [][/\ ServedCommand("new", "launch") => "sessionId" \notin DOMAIN response'
       /\ LaunchEnds /\ "sessionId" \in DOMAIN response' =>
            LET sid == response'.sessionId IN
            /\ sid \in DOMAIN sessions' \ DOMAIN sessions
            /\ sessions'[sid].id = sid
            /\ \E i \in 1..Len(desktop) :
                  /\ Reports(i, launch.pid)
                  /\ \A j \in 1..(i - 1) : ~Reports(j, launch.pid)
                  /\ sessions'[sid].app = desktop[i]
                  /\ MainWindowOf(desktop[i], sessions'[sid].window)
            /\ sessions'[sid].pid = launch.pid
            /\ response'.pid = sessions'[sid].pid]_vars

\* a launch answered with a session on the application that reports the
\* process id of the response, window found
C35_LaunchedSessionBound ==
    /\ last.parts = <<"session", "new", "launch">>
    /\ "sessionId" \in DOMAIN response
    /\ response.sessionId \in DOMAIN sessions
    /\ Tree[sessions[response.sessionId].app].pid = response.pid
    /\ sessions[response.sessionId].window # None

\* names and process ids the finders are asked for
AskedNames == {<<"e", "d">>, <<"S", "E">>, <<"z">>}
AskedPids == Pids \cup NoGuiPids

\* application number i answers and its name contains name
Named(i, name) ==
    ~Fails(desktop[i]) /\ ContainsCI(name, OrEmpty(Tree[desktop[i]].name))

(* C36: find_app_by_name, find_app_by_pid and find_window never raise to
   their caller: an application whose name, process id or children cannot be
   read is passed over, the first of the others that matches is returned, and
   None is returned when there is none. *)
C36_FindersNeverRaise ==
    /\ \A name \in AskedNames :
          /\ find_app_by_name(name) # Raised
          /\ (find_app_by_name(name) = None)
               = (\A i \in 1..Len(desktop) : ~Named(i, name))
    /\ \A pid \in AskedPids :
          /\ find_app_by_pid(pid) # Raised
          /\ (find_app_by_pid(pid) = None)
               = (\A i \in 1..Len(desktop) : ~Reports(i, pid))
    /\ \A i \in 1..Len(desktop), name \in AskedNames \cup {NoneStr} :
          find_window(desktop[i], name) # Raised

\* the step ends a launch or an attach without a session
FailedStart ==
    /\ \/ ServedCommand("new", "launch") /\ ~launch'.active
       \/ ServedCommand("new", "attach")
       \/ LaunchEnds
    /\ "sessionId" \notin DOMAIN response'

\* the step serves a find that stores no handle
EmptyFind ==
    /\ \E s \in DOMAIN sessions :
          ServedCommand(s, "findElement") \/ ServedCommand(s, "findElements")
    /\ elements' = elements

(* C37: the keys of the handle table are always ax-1 .. ax-n, n the element
   counter, and every registered session id is session-k with k between 1 and
   the session counter; a launch or an attach that fails and a find that
   matches nothing leave both counters as they were. *)
C37_CountersMatchTables ==
    /\ [](/\ DOMAIN elements = {ElementIdOf(k) : k \in 1..element_counter}
          /\ DOMAIN sessions \subseteq {SessionIdOf(k) : k \in 1..session_counter})
    /\ [][FailedStart \/ EmptyFind =>
            session_counter' = session_counter /\ element_counter' = element_counter]_vars

(* C38: every registered session is stored under its own id, has an
   application, and has either no window or a window that is a child of its
   application with role frame, window or dialog; and no response is "No root
   element" or "No window". *)
C38_SessionsWellFormed ==
    /\ \A s \in DOMAIN sessions :
          /\ sessions[s].id = s
          /\ sessions[s].app \in Apps
          /\ \/ sessions[s].window = None
             \/ /\ \E k \in 1..Len(Tree[sessions[s].app].children) :
                      Tree[sessions[s].app].children[k] = sessions[s].window
                /\ Tree[sessions[s].window].role \in {"FRAME", "WINDOW", "DIALOG"}
    /\ response \notin {Error("No root element"), Error("No window")}

\* a findElement through a session without a window, answered from the
\* application
C38_FoundWithoutWindow ==
    /\ Len(last.parts) = 3 /\ last.parts[3] = "findElement"
    /\ last.parts[2] \in DOMAIN sessions
    /\ sessions[last.parts[2]].window = None
    /\ "elementId" \in DOMAIN response

\* what a getBounds answers for node n
RectangleOf(n) ==
    IF Component[n].has
    THEN [x |-> Component[n].x, y |-> Component[n].y,
          width |-> Component[n].width, height |-> Component[n].height]
    ELSE [x |-> 0, y |-> 0, width |-> 0, height |-> 0]

(* C39: what an element command answers and does is fixed by the node its
   elementId is bound to and by its payload, whichever registered session is
   in the path and whether or not the session that found the handle is still
   registered: through every session, getName answers the node's name,
   getBounds the node's rectangle, click acts on the node or at its centre,
   and type leaves the typed text in the node. *)
C39_AnySessionSameNode ==
    [][\A s \in DOMAIN sessions :
         /\ ServedCommand(s, "getName") /\ last'.data.elementId \in DOMAIN elements
            => response' = [value |-> OrEmpty(Tree[Target].name)]
         /\ ServedCommand(s, "getBounds") /\ last'.data.elementId \in DOMAIN elements
            => response' = RectangleOf(Target)
         /\ ServedCommand(s, "click") /\ last'.data.elementId \in DOMAIN elements
            => IF response' = Success
               THEN \/ Clickable(Target) /\ effects'[1].node = Target
                    \/ NoClickAction(Target) /\ effects' = CentreClick(Target)
               ELSE response' = Error("Click failed")
         /\ ServedCommand(s, "type") /\ last'.data.elementId \in DOMAIN elements
              /\ response' = Success /\ Target \in EditableText
            => texts'[Target] = last'.data.text]_vars

\* the handle to btn8 of app1 outlived the session on app1 and is asked for
\* its name through the session on app2
C39_NameThroughOtherSession ==
    /\ Len(last.parts) = 3 /\ last.parts[3] = "getName"
    /\ DOMAIN sessions = {last.parts[2]}
    /\ sessions[last.parts[2]].app = "app2"
    /\ last.data.elementId \in DOMAIN elements
    /\ elements[last.data.elementId] = "btn8"
    /\ response = [value |-> <<"O", "k">>]

(* C40: take_screenshot leaves no temporary file behind: whenever it made
   one, whether gnome-screenshot succeeded, only scrot succeeded or both
   failed, it removed it before returning: as many files were unlinked as
   were made, the unlink coming last. *)
C40_NoTempFileLeft ==
    /\ Len(Runs(effects, "unlink")) = Len(Runs(effects, "tempfile"))
    /\ Runs(effects, "tempfile") # <<>> => effects[Len(effects)].kind = "unlink"

====
